---------------------------- MODULE Spec2Model ----------------------------
(***************************************************************************)
(* Mission Control: the task store, the auto-assignment engine, the        *)
(* message fan-out (mentions, subscriptions, notifications) and the        *)
(* external sync gateway, modelled from the Convex functions.              *)
(*                                                                         *)
(* Strings are TLA+ strings; a character is a string of length 1.  Tables  *)
(* are sequences of records in insertion order, as collect() returns them. *)
(***************************************************************************)
EXTENDS Naturals, Sequences, FiniteSets, Bags, TLC

VARIABLES
    agents,         \* table "agents": <<[id, name, role]>>
    tasks,          \* table "tasks"
    activities,     \* table "activities"
    messages,       \* table "messages"
    subscriptions,  \* table "subscriptions"
    notifications,  \* table "notifications"
    objectives,     \* table "objectives"
    projects,       \* table "projects"
    plannerState,   \* table "plannerState"
    documents,      \* table "documents"
    play,           \* the board's handlePlay call in progress
    txns,           \* sync mutations in flight (one transaction each)
    nextId,         \* next fresh document id
    last            \* the last completed call: its arguments, what it read, its answer

vars == <<agents, tasks, activities, messages, subscriptions, notifications,
          objectives, projects, plannerState, documents, play, txns, nextId, last>>

\* no document: null / undefined where an id is expected (document ids start at 1)
NULL == 0

\* Array.prototype.find / first() finding nothing
NoAgent == [id |-> NULL, name |-> "", role |-> ""]

(***************************************************************************)
(* Strings                                                                 *)
(***************************************************************************)
UpperChars == "ABCDEFGHIJKLMNOPQRSTUVWXYZ"
LowerChars == "abcdefghijklmnopqrstuvwxyz"
DigitChars == "0123456789_"

CharAt(s, i) == SubSeq(s, i, i)

CharsOf(s) == {CharAt(s, i) : i \in 1..Len(s)}

UpperSet == CharsOf(UpperChars)
WordCharSet == CharsOf(UpperChars) \cup CharsOf(LowerChars) \cup CharsOf(DigitChars) \cup {"_"}

LowerOf ==
    [c \in UpperSet |->
        CharAt(LowerChars, CHOOSE i \in 1..Len(UpperChars) : CharAt(UpperChars, i) = c)]

\* String.prototype.toLowerCase, one character
LowerChar(c) == IF c \in UpperSet THEN LowerOf[c] ELSE c

RECURSIVE toLowerCase(_)
toLowerCase(s) ==
    IF s = "" THEN "" ELSE LowerChar(CharAt(s, 1)) \o toLowerCase(SubSeq(s, 2, Len(s)))

\* the regex class \w
IsWordChar(c) == c \in WordCharSet

\* the regex class \s, as far as the inputs use it
IsSpaceChar(c) == c \in {" ", "\n", "\t"}

\* lit occurs in s at position i
OccursAt(s, i, lit) ==
    /\ i >= 1
    /\ i + Len(lit) - 1 <= Len(s)
    /\ SubSeq(s, i, i + Len(lit) - 1) = lit

\* String.prototype.includes
includes(s, lit) == \E i \in 1..(Len(s) + 1) : OccursAt(s, i, lit)

\* Array.prototype.join(" ")
RECURSIVE joinSpace(_)
joinSpace(ss) ==
    IF ss = <<>> THEN ""
    ELSE IF Len(ss) = 1 THEN ss[1]
    ELSE ss[1] \o " " \o joinSpace(Tail(ss))

\* the regex assertion \b at the gap before position i of s (1..Len(s)+1)
WordBoundary(s, i) ==
    LET before == i > 1 /\ IsWordChar(CharAt(s, i - 1))
        after  == i <= Len(s) /\ IsWordChar(CharAt(s, i))
    IN  before # after

\* "." matches every character but a line terminator
NoLineBreak(s, from, to) == \A k \in from..to : CharAt(s, k) \notin {"\n", "\r"}

\* the rest of a pattern lit1.*lit2.*... from position `from` on
RECURSIVE ChainFrom(_, _, _)
ChainFrom(parts, s, from) ==
    \/ parts = <<>>
    \/ \E j \in from..(Len(s) + 1) :
          /\ OccursAt(s, j, parts[1])
          /\ NoLineBreak(s, from, j - 1)
          /\ ChainFrom(Tail(parts), s, j + Len(parts[1]))

(***************************************************************************)
(* RegExp.prototype.test for the patterns of AGENT_PATTERNS, all /i.       *)
(*   kind "sub":   /a/  or  /a.*b/  or  /a.*b.*c/   (parts <<a, b, c>>)     *)
(*   kind "word":  /\ba\b/                                                  *)
(*   kind "start": /\ba/                                                    *)
(***************************************************************************)
test(pattern, text) ==
    LET s   == toLowerCase(text)
        lit == pattern.parts[1]
    IN  \E i \in 1..(Len(s) + 1) :
          /\ OccursAt(s, i, lit)
          /\ pattern.kind \in {"word", "start"} => WordBoundary(s, i)
          /\ pattern.kind = "word" => WordBoundary(s, i + Len(lit))
          /\ ChainFrom(Tail(pattern.parts), s, i + Len(lit))

Sub(a) == [kind |-> "sub", parts |-> <<a>>]
Sub2(a, b) == [kind |-> "sub", parts |-> <<a, b>>]
Sub3(a, b, c) == [kind |-> "sub", parts |-> <<a, b, c>>]
Word(a) == [kind |-> "word", parts |-> <<a>>]
Start(a) == [kind |-> "start", parts |-> <<a>>]

\* Order matters: more specific rules first, the generic Coder rule last
AGENT_PATTERNS == <<
    [patterns |-> << Word("ui"), Word("ux"), Sub("wireframe"), Sub("mockup"),
                     Sub("usability"), Sub2("user", "flow"), Word("interface"),
                     Sub("prototype") >>,
     agentName |-> "UI/UX Expert"],
    [patterns |-> << Sub("requirement"), Sub("research"), Word("analysis"),
                     Sub("user stor"), Word("spec"), Sub("discovery"),
                     Sub2("market", "study") >>,
     agentName |-> "Analyst"],
    [patterns |-> << Sub("architect"), Sub2("system", "design"), Word("schema"),
                     Sub2("api", "design"), Sub("database"), Sub("infrastructure"),
                     Sub2("tech", "stack") >>,
     agentName |-> "Architect"],
    [patterns |-> << Sub("marketing"), Word("content"), Word("seo"), Sub("campaign"),
                     Start("brand"), Sub2("social", "media"), Word("blog"),
                     Sub("newsletter") >>,
     agentName |-> "Marketing"],
    [patterns |-> << Word("sales"), Sub("pricing"), Sub("proposal"), Word("gtm"),
                     Sub3("go", "to", "market"), Sub("revenue"), Word("icp") >>,
     agentName |-> "Sales Expert"],
    [patterns |-> << Word("qa"), Sub2("quality", "assurance"), Sub2("test", "plan"),
                     Sub2("test", "case"), Sub2("bug", "report"),
                     Sub2("security", "audit"), Sub("validation"), Word("testing") >>,
     agentName |-> "Tester"],
    [patterns |-> << Sub("implement"), Word("code"), Sub("develop"), Word("build"),
                     Word("fix"), Sub("deploy"), Sub("devops"), Word("bug"),
                     Sub("feature"), Sub("refactor") >>,
     agentName |-> "Coder"] >>

(***************************************************************************)
(* Agent directory lookups                                                 *)
(***************************************************************************)
FirstIndex_Last(hits) ==
    IF hits = {} THEN 0 ELSE CHOOSE i \in hits : \A j \in hits : j <= i

\* Array.prototype.find / first(): the least of the indices that satisfy the
\* condition, or 0 when none does
FirstIndex(hits) ==
    IF hits = {} THEN 0 ELSE CHOOSE i \in hits : \A j \in hits : i <= j

\* the agent found by name or role, case-insensitive, or NoAgent
findAgentByName(dir, name) ==
    LET Hit(a) == \/ toLowerCase(a.name) = toLowerCase(name)
                  \/ toLowerCase(a.role) = toLowerCase(name)
        i == FirstIndex({k \in 1..Len(dir) : Hit(dir[k])})
    IN  IF i = 0 THEN NoAgent ELSE dir[i]

\* the flat list of (rule, pattern) pairs of a rule table in the order the two
\* loops visit them
PairsOf(rules) ==
    LET RECURSIVE Pairs(_, _)
        Pairs(r, p) ==
            IF r > Len(rules) THEN <<>>
            ELSE IF p > Len(rules[r].patterns) THEN Pairs(r + 1, 1)
            ELSE <<[rule |-> r, pat |-> p]>> \o Pairs(r, p + 1)
    IN  Pairs(1, 1)

RulePatternPairs == PairsOf(AGENT_PATTERNS)

searchTextOf(title, description, tags) ==
    toLowerCase(title \o " " \o description \o " " \o joinSpace(tags))

\* autoAssignAgent walking the rule table from its last rule to its first
autoAssignAgent_LastRuleFirst(dir, title, description, tags) ==
    LET searchText == searchTextOf(title, description, tags)
        Returns(pr) ==
            /\ test(AGENT_PATTERNS[pr.rule].patterns[pr.pat], searchText)
            /\ findAgentByName(dir, AGENT_PATTERNS[pr.rule].agentName) # NoAgent
        hits == {k \in 1..Len(RulePatternPairs) : Returns(RulePatternPairs[k])}
        k == CHOOSE k \in hits : \A j \in hits : j <= k
    IN  IF hits # {}
        THEN findAgentByName(dir, AGENT_PATTERNS[RulePatternPairs[k].rule].agentName).id
        ELSE findAgentByName(dir, "Theeb").id

\* autoAssignAgent falling back to the first agent of the directory when
\* there is no Theeb
autoAssignAgent_FirstAgentFallback(dir, title, description, tags) ==
    LET searchText == searchTextOf(title, description, tags)
        Returns(pr) ==
            /\ test(AGENT_PATTERNS[pr.rule].patterns[pr.pat], searchText)
            /\ findAgentByName(dir, AGENT_PATTERNS[pr.rule].agentName) # NoAgent
        k == FirstIndex({j \in 1..Len(RulePatternPairs) : Returns(RulePatternPairs[j])})
        theeb == findAgentByName(dir, "Theeb")
    IN  IF k # 0
        THEN findAgentByName(dir, AGENT_PATTERNS[RulePatternPairs[k].rule].agentName).id
        ELSE IF theeb # NoAgent THEN theeb.id
        ELSE IF Len(dir) > 0 THEN dir[1].id ELSE NULL

\* the two loops trusting the first rule of the table without testing its
\* patterns
assignWithRules_FirstRuleUntested(rules, dir, title, description, tags) ==
    LET searchText == searchTextOf(title, description, tags)
        pairs == PairsOf(rules)
        Returns(pr) ==
            /\ pr.rule = 1 \/ test(rules[pr.rule].patterns[pr.pat], searchText)
            /\ findAgentByName(dir, rules[pr.rule].agentName) # NoAgent
        k == FirstIndex({j \in 1..Len(pairs) : Returns(pairs[j])})
        theeb == findAgentByName(dir, "Theeb")
    IN  IF k # 0
        THEN findAgentByName(dir, rules[pairs[k].rule].agentName).id
        ELSE theeb.id

\* the two loops stopping at the first pattern that matches, with or without
\* an agent for its rule
assignWithRules_StopsAtFirstMatch(rules, dir, title, description, tags) ==
    LET searchText == searchTextOf(title, description, tags)
        pairs == PairsOf(rules)
        k == FirstIndex({j \in 1..Len(pairs) :
                test(rules[pairs[j].rule].patterns[pairs[j].pat], searchText)})
        theeb == findAgentByName(dir, "Theeb")
    IN  IF k # 0 /\ findAgentByName(dir, rules[pairs[k].rule].agentName) # NoAgent
        THEN findAgentByName(dir, rules[pairs[k].rule].agentName).id
        ELSE theeb.id

\* the body of autoAssignAgent over a rule table: the id of the owning agent,
\* or NULL
assignWithRules(rules, dir, title, description, tags) ==
    LET searchText == searchTextOf(title, description, tags)
        pairs == PairsOf(rules)
        Returns(pr) ==
            /\ test(rules[pr.rule].patterns[pr.pat], searchText)
            /\ findAgentByName(dir, rules[pr.rule].agentName) # NoAgent
        k == FirstIndex({j \in 1..Len(pairs) : Returns(pairs[j])})
        theeb == findAgentByName(dir, "Theeb")
    IN  IF k # 0
        THEN findAgentByName(dir, rules[pairs[k].rule].agentName).id
        ELSE theeb.id

\* the id of the owning agent, or NULL
autoAssignAgent(dir, title, description, tags) ==
    assignWithRules(AGENT_PATTERNS, dir, title, description, tags)

(***************************************************************************)
(* The stores before any call                                              *)
(***************************************************************************)
\* Agents the directory may hold, in the order they were created.  Pixel
\* carries the UI/UX role under another name; Dev carries the Coder role.
AgentTemplates == <<
    [id |-> 1, name |-> "Sami",         role |-> "Owner"],
    [id |-> 2, name |-> "Theeb",        role |-> "Squad Lead"],
    [id |-> 3, name |-> "UI/UX Expert", role |-> "Designer"],
    [id |-> 4, name |-> "Pixel",        role |-> "ui/ux expert"],
    [id |-> 5, name |-> "Coder",        role |-> "Developer"],
    [id |-> 6, name |-> "Tester",       role |-> "QA"] >>

\* the elements of seq whose index is in keep, in order
RECURSIVE Restrict(_, _)
Restrict(seq, keep) ==
    IF seq = <<>> THEN <<>>
    ELSE LET rest == Restrict(Tail(seq), {k - 1 : k \in keep \ {1}})
         IN  IF 1 \in keep THEN <<Head(seq)>> \o rest ELSE rest

\* every directory createAgent / deleteAgent can leave of the templates
Directories == {Restrict(AgentTemplates, keep) : keep \in SUBSET (1..Len(AgentTemplates))}

NoCall == [op |-> "none"]

\* no handlePlay call is in progress
NoPlay == [pc |-> "idle"]

EmptyStores ==
    /\ tasks = <<>>
    /\ activities = <<>>
    /\ messages = <<>>
    /\ subscriptions = <<>>
    /\ notifications = <<>>
    /\ objectives = <<>>
    /\ projects = <<>>
    /\ plannerState = <<>>
    /\ documents = <<>>
    /\ play = NoPlay
    /\ txns = <<>>
    /\ nextId = 1
    /\ last = NoCall

(***************************************************************************)
(* The auto-assignment engine as a function of the directory and the text  *)
(***************************************************************************)
Text(title, description, tags) ==
    [title |-> title, description |-> description, tags |-> tags]

AssignTexts == {
    Text("Build UI mockup", "", <<>>),
    Text("BUILD THE INTERFACE", "Develop it", <<"frontend">>),
    Text("Implement feature", "new page", <<"sprint", "ux">>),
    Text("Prototype", "then deploy", <<>>),
    Text("Fix login bug", "", <<>>),
    Text("Build", "user\nflow", <<>>),
    Text("QA testing for build", "", <<>>),
    Text("Research pricing", "", <<"gtm">>),
    Text("Rebuild guide", "quarterly notes", <<>>),
    Text("Write summary", "", <<"misc">>) }

(***************************************************************************)
(* The engine over reordered rule tables                                   *)
(***************************************************************************)
\* orders of the seven rules: as written, the first five rules rotated, the
\* rules between UI/UX and Coder reversed, Tester and Coder exchanged, Coder
\* first, and the table reversed
RuleOrders == {
    <<1, 2, 3, 4, 5, 6, 7>>,
    <<2, 3, 4, 5, 1, 6, 7>>,
    <<1, 6, 5, 4, 3, 2, 7>>,
    <<1, 2, 3, 4, 5, 7, 6>>,
    <<7, 1, 2, 3, 4, 5, 6>>,
    <<7, 6, 5, 4, 3, 2, 1>> }

\* AGENT_PATTERNS with its rules in the given order
Reordered(order) == [k \in 1..Len(order) |-> AGENT_PATTERNS[order[k]]]

RuleDirectories ==
    {Restrict(AgentTemplates, keep) : keep \in {{1, 2, 3, 5, 6}, {2, 5, 6}, {3, 5}, {1}}}

RulesInit ==
    /\ agents \in RuleDirectories
    /\ EmptyStores

\* the engine applied to a text with the rules in the given order
AssignWithOrder(t, order) ==
    /\ last' = [op |-> "autoAssignAgent", text |-> t, order |-> order,
                result |-> assignWithRules(Reordered(order), agents,
                                           t.title, t.description, t.tags)]
    /\ UNCHANGED <<agents, tasks, activities, messages, subscriptions, notifications,
                   objectives, projects, plannerState, documents, play, txns, nextId>>

RulesNext == \E t \in AssignTexts, order \in RuleOrders : AssignWithOrder(t, order)

SpecRules == RulesInit /\ [][RulesNext]_vars

(***************************************************************************)
(* The task store                                                          *)
(***************************************************************************)
msgVars == <<messages, subscriptions, notifications>>
syncVars == <<objectives, projects, plannerState, documents, play, txns>>

\* a name that is null in a response: `agent?.name || null` turns the empty
\* name into null as well, so the empty string stands for both
NullName == ""

\* ctx.db.get on the agents table
AgentById(dir, id) ==
    LET i == FirstIndex({k \in 1..Len(dir) : dir[k].id = id})
    IN  IF i = 0 THEN NoAgent ELSE dir[i]

\* the position of the task with this id, or 0
TaskIndex(ts, id) == FirstIndex({k \in 1..Len(ts) : ts[k].id = id})

\* every text a task of the model can carry, and the engine's answer for it,
\* computed once per directory and text
TaskTexts == {
    Text("MC-1 Build UI mockup", "", <<>>),
    Text("MC-12 Fix login bug", "", <<"backend">>),
    Text("Write summary", "", <<"misc">>) }

AllTexts == AssignTexts \cup TaskTexts

\* the rules with a pattern matching the text
matchingRules ==
    [t \in AllTexts |->
        {r \in 1..Len(AGENT_PATTERNS) :
            \E p \in 1..Len(AGENT_PATTERNS[r].patterns) :
                test(AGENT_PATTERNS[r].patterns[p],
                     searchTextOf(t.title, t.description, t.tags))}]

assignmentOf ==
    [d \in Directories |->
        [t \in AllTexts |-> autoAssignAgent(d, t.title, t.description, t.tags)]]

AutoAssign(dir, title, description, tags) ==
    IF dir \in Directories /\ Text(title, description, tags) \in AllTexts
    THEN assignmentOf[dir][Text(title, description, tags)]
    ELSE autoAssignAgent(dir, title, description, tags)

\* the engine applied to a text, as a call of its own
AssignInit ==
    /\ agents \in Directories
    /\ EmptyStores

AutoAssignCall(t) ==
    /\ last' = [op |-> "autoAssignAgent", text |-> t,
                result |-> AutoAssign(agents, t.title, t.description, t.tags)]
    /\ UNCHANGED <<agents, tasks, activities, messages, subscriptions, notifications,
                   objectives, projects, plannerState, documents, play, txns, nextId>>

AssignNext == \E t \in AssignTexts : AutoAssignCall(t)

SpecAssign == AssignInit /\ [][AssignNext]_vars

\* createTaskWithAgent: an absent optional argument is the empty string
CreateTaskWithAgent(args) ==
    LET explicit == IF args.assignee # "" THEN findAgentByName(agents, args.assignee)
                    ELSE NoAgent
        byName == IF explicit # NoAgent THEN <<explicit.id>> ELSE <<>>
        auto == AutoAssign(agents, args.title, args.description, args.tags)
        assigneeIds == IF Len(byName) = 0
                       THEN (IF auto # NULL THEN <<auto>> ELSE <<>>)
                       ELSE byName
        assigneeName == IF Len(assigneeIds) > 0
                        THEN AgentById(agents, assigneeIds[1]).name
                        ELSE NullName
    IN  /\ tasks' = Append(tasks,
                [id |-> nextId, title |-> args.title, description |-> args.description,
                 status |-> IF args.status # "" THEN args.status ELSE "inbox",
                 assigneeIds |-> assigneeIds, tags |-> args.tags,
                 priority |-> IF args.priority # "" THEN args.priority ELSE "normal"])
        /\ nextId' = nextId + 1
        /\ last' = [op |-> "createTaskWithAgent", args |-> args, threw |-> FALSE,
                    result |-> [success |-> TRUE, taskId |-> nextId,
                                assignee |-> assigneeName]]
        /\ UNCHANGED <<agents, activities, msgVars, syncVars>>

\* createTask running the auto-assignment when the explicit assignee is not
\* found
CreateTask_AutoWhenNotFound(args) ==
    LET explicit == IF args.assignee # "" THEN findAgentByName(agents, args.assignee)
                    ELSE NoAgent
        auto == AutoAssign(agents, args.title, args.description, args.tags)
        assigneeIds ==
            IF explicit # NoAgent THEN <<explicit.id>>
            ELSE IF args.autoAssign # "false"
                 THEN (IF auto # NULL THEN <<auto>> ELSE <<>>)
                 ELSE <<>>
    IN  /\ tasks' = Append(tasks,
                [id |-> nextId, title |-> args.title, description |-> args.description,
                 status |-> args.status, assigneeIds |-> assigneeIds, tags |-> args.tags,
                 priority |-> IF args.priority # "" THEN args.priority ELSE "normal"])
        /\ nextId' = nextId + 1
        /\ last' = [op |-> "createTask", args |-> args, threw |-> FALSE,
                    result |-> nextId]
        /\ UNCHANGED <<agents, activities, msgVars, syncVars>>

\* createTask: autoAssign is "undefined", "true" or "false"
CreateTask(args) ==
    LET explicit == IF args.assignee # "" THEN findAgentByName(agents, args.assignee)
                    ELSE NoAgent
        auto == AutoAssign(agents, args.title, args.description, args.tags)
        assigneeIds ==
            IF args.assignee # ""
            THEN (IF explicit # NoAgent THEN <<explicit.id>> ELSE <<>>)
            ELSE IF args.autoAssign # "false"
                 THEN (IF auto # NULL THEN <<auto>> ELSE <<>>)
                 ELSE <<>>
    IN  /\ tasks' = Append(tasks,
                [id |-> nextId, title |-> args.title, description |-> args.description,
                 status |-> args.status, assigneeIds |-> assigneeIds, tags |-> args.tags,
                 priority |-> IF args.priority # "" THEN args.priority ELSE "normal"])
        /\ nextId' = nextId + 1
        /\ last' = [op |-> "createTask", args |-> args, threw |-> FALSE,
                    result |-> nextId]
        /\ UNCHANGED <<agents, activities, msgVars, syncVars>>

\* fixUnassignedTasks assigning every task, whether it has an assignee or not
FixedTask_NoFilter(dir, t) ==
    LET agentId == AutoAssign(dir, t.title, t.description, t.tags)
    IN  IF agentId # NULL THEN [t EXCEPT !.assigneeIds = <<agentId>>] ELSE t

\* fixUnassignedTasks: the task as the loop leaves it
FixedTask(dir, t) ==
    LET agentId == AutoAssign(dir, t.title, t.description, t.tags)
    IN  IF Len(t.assigneeIds) = 0 /\ agentId # NULL
        THEN [t EXCEPT !.assigneeIds = <<agentId>>]
        ELSE t

\* fixUnassignedTasks: the results array, one entry per unassigned task
RECURSIVE FixResults(_, _)
FixResults(dir, ts) ==
    IF ts = <<>> THEN <<>>
    ELSE LET t == Head(ts)
             agentId == AutoAssign(dir, t.title, t.description, t.tags)
             entry == [taskId |-> t.id, title |-> t.title,
                       assignedTo |-> IF agentId # NULL
                                      THEN AgentById(dir, agentId).name
                                      ELSE NullName]
         IN  IF Len(t.assigneeIds) = 0
             THEN <<entry>> \o FixResults(dir, Tail(ts))
             ELSE FixResults(dir, Tail(ts))

FixUnassignedTasks ==
    LET results == FixResults(agents, tasks)
    IN  /\ tasks' = [i \in 1..Len(tasks) |-> FixedTask(agents, tasks[i])]
        /\ last' = [op |-> "fixUnassignedTasks", threw |-> FALSE,
                    before |-> tasks,
                    result |-> [totalUnassigned |-> Len(results),
                                fixed |-> Len(SelectSeq(results,
                                             LAMBDA r : r.assignedTo # NullName)),
                                results |-> results],
                    prev |-> IF last.op = "fixUnassignedTasks"
                             THEN [op |-> last.op, before |-> last.before,
                                   result |-> last.result]
                             ELSE NoCall]
        /\ UNCHANGED <<agents, activities, nextId, msgVars, syncVars>>

\* ctx.db.patch of one field on every listed task (all of them exist)
RECURSIVE PatchAll(_, _, _, _)
PatchAll(ts, taskIds, fld, val) ==
    IF taskIds = <<>> THEN ts
    ELSE PatchAll([ts EXCEPT ![TaskIndex(ts, Head(taskIds))] =
                        [f \in DOMAIN @ |-> IF f = fld THEN val ELSE @[f]]],
                  Tail(taskIds), fld, val)

AllExist(ts, taskIds) == \A k \in 1..Len(taskIds) : TaskIndex(ts, taskIds[k]) # 0

\* args.taskIds[0], undefined for the empty list
FirstOrNull(taskIds) == IF Len(taskIds) > 0 THEN taskIds[1] ELSE NULL

\* the tasks when a loop of patches stops: every listed task up to the first
\* missing id is patched, and the patch of the missing one throws
RECURSIVE PatchPrefix(_, _, _, _)
PatchPrefix(ts, taskIds, fld, val) ==
    IF taskIds = <<>> \/ TaskIndex(ts, Head(taskIds)) = 0 THEN ts
    ELSE PatchPrefix(PatchAll(ts, <<Head(taskIds)>>, fld, val), Tail(taskIds), fld, val)

Rollback_KeepsWrites(committed, written) == written

\* a mutation is one transaction: when the handler throws, the tables stay
\* as committed and what the handler has written is dropped
Rollback(committed, written) == committed

\* a mutation that throws after writing some tasks commits nothing
Throws(op, args, written) ==
    /\ tasks' = Rollback(tasks, written)
    /\ last' = [op |-> op, args |-> args, threw |-> TRUE,
                before |-> [tasks |-> tasks, activities |-> activities]]
    /\ UNCHANGED <<agents, activities, nextId, msgVars, syncVars>>

\* batchArchive logging one activity for each archived task
BatchArchive_ActivityPerTask(args) ==
    /\ AllExist(tasks, args.taskIds)
    /\ tasks' = PatchAll(tasks, args.taskIds, "status", "archived")
    /\ activities' = activities \o
            [k \in 1..Len(args.taskIds) |->
                [type |-> "status_update", agentId |-> args.agentId,
                 message |-> "archived 1 tasks", targetId |-> args.taskIds[k]]]
    /\ last' = [op |-> "batchArchive", args |-> args, threw |-> FALSE,
                before |-> [tasks |-> tasks, activities |-> activities]]
    /\ UNCHANGED <<agents, nextId, msgVars, syncVars>>

\* batchArchive: patch of a missing document throws
BatchArchive(args) ==
    \/ /\ AllExist(tasks, args.taskIds)
       /\ tasks' = PatchAll(tasks, args.taskIds, "status", "archived")
       /\ activities' = Append(activities,
                [type |-> "bulk_archive", agentId |-> args.agentId,
                 message |-> "archived " \o ToString(Len(args.taskIds)) \o " tasks",
                 targetId |-> FirstOrNull(args.taskIds)])
       /\ last' = [op |-> "batchArchive", args |-> args, threw |-> FALSE,
                   before |-> [tasks |-> tasks, activities |-> activities]]
       /\ UNCHANGED <<agents, nextId, msgVars, syncVars>>
    \/ /\ ~AllExist(tasks, args.taskIds)
       /\ Throws("batchArchive", args,
                 PatchPrefix(tasks, args.taskIds, "status", "archived"))

\* the activity a bulk operation logs
BulkActivity(type, args, message) ==
    [type |-> type, agentId |-> args.agentId, message |-> message,
     targetId |-> FirstOrNull(args.taskIds)]

\* batchUpdatePriority
BatchUpdatePriority(args) ==
    \/ /\ AllExist(tasks, args.taskIds)
       /\ tasks' = PatchAll(tasks, args.taskIds, "priority", args.priority)
       /\ activities' = Append(activities,
                BulkActivity("bulk_priority_update", args,
                    "updated priority of " \o ToString(Len(args.taskIds))
                        \o " tasks to " \o args.priority))
       /\ last' = [op |-> "batchUpdatePriority", args |-> args, threw |-> FALSE,
                   before |-> [tasks |-> tasks, activities |-> activities]]
       /\ UNCHANGED <<agents, nextId, msgVars, syncVars>>
    \/ /\ ~AllExist(tasks, args.taskIds)
       /\ Throws("batchUpdatePriority", args,
                 PatchPrefix(tasks, args.taskIds, "priority", args.priority))

\* batchAssign
BatchAssign(args) ==
    \/ /\ AllExist(tasks, args.taskIds)
       /\ tasks' = PatchAll(tasks, args.taskIds, "assigneeIds", args.assigneeIds)
       /\ activities' = Append(activities,
                BulkActivity("bulk_assign", args,
                    "assigned " \o ToString(Len(args.taskIds)) \o " tasks"))
       /\ last' = [op |-> "batchAssign", args |-> args, threw |-> FALSE,
                   before |-> [tasks |-> tasks, activities |-> activities]]
       /\ UNCHANGED <<agents, nextId, msgVars, syncVars>>
    \/ /\ ~AllExist(tasks, args.taskIds)
       /\ Throws("batchAssign", args,
                 PatchPrefix(tasks, args.taskIds, "assigneeIds", args.assigneeIds))

\* the tasks when a loop of deletes stops: every listed task up to the first
\* missing id is deleted, and the delete of the missing one throws
RECURSIVE DeletePrefix(_, _)
DeletePrefix(ts, taskIds) ==
    IF taskIds = <<>> \/ TaskIndex(ts, Head(taskIds)) = 0 THEN ts
    ELSE DeletePrefix(SelectSeq(ts, LAMBDA t : t.id # Head(taskIds)), Tail(taskIds))

\* batchDeleteTasks: the activity has no targetId
BatchDeleteTasks(args) ==
    \/ /\ AllExist(tasks, args.taskIds)
       /\ tasks' = DeletePrefix(tasks, args.taskIds)
       /\ activities' = Append(activities,
                [type |-> "bulk_delete", agentId |-> args.agentId,
                 message |-> "deleted " \o ToString(Len(args.taskIds)) \o " tasks",
                 targetId |-> NULL])
       /\ last' = [op |-> "batchDeleteTasks", args |-> args, threw |-> FALSE,
                   before |-> [tasks |-> tasks, activities |-> activities]]
       /\ UNCHANGED <<agents, nextId, msgVars, syncVars>>
    \/ /\ ~AllExist(tasks, args.taskIds)
       /\ Throws("batchDeleteTasks", args, DeletePrefix(tasks, args.taskIds))

\* statusMap without its IN_PROGRESS entry
statusMap_NoInProgress ==
    [INBOX |-> "inbox", ASSIGNED |-> "assigned", DONE |-> "done"]

\* updateStatusByExternalId: statusMap[args.status] || args.status
statusMap ==
    [INBOX |-> "inbox", ASSIGNED |-> "assigned", IN_PROGRESS |-> "in_progress",
     DONE |-> "done"]

normalizedStatusOf(status) ==
    IF status \in DOMAIN statusMap THEN statusMap[status] ELSE status

\* what updateStatusByExternalId does to the store: the tasks, the activity
\* log and the answer.  An absent assignee is the empty string.
updateStatusByExternalId(dir, ts, acts, args) ==
    LET t == FirstIndex({k \in 1..Len(ts) : includes(ts[k].title, args.taskId)})
        normalizedStatus == normalizedStatusOf(args.status)
        agent == IF args.assignee # "" THEN findAgentByName(dir, args.assignee)
                 ELSE NoAgent
        patched == IF agent # NoAgent
                   THEN [ts[t] EXCEPT !.status = normalizedStatus,
                                      !.assigneeIds = <<agent.id>>]
                   ELSE [ts[t] EXCEPT !.status = normalizedStatus]
        theeb == FirstIndex({k \in 1..Len(dir) :
                                includes(toLowerCase(dir[k].name), "theeb")})
        systemAgent == IF theeb # 0 THEN dir[theeb]
                       ELSE IF Len(dir) > 0 THEN dir[1] ELSE NoAgent
    IN  IF t = 0
        THEN [tasks |-> ts, activities |-> acts,
              result |-> [success |-> FALSE,
                          error |-> "Task not found: " \o args.taskId]]
        ELSE [tasks |-> [ts EXCEPT ![t] = patched],
              activities |->
                  IF systemAgent # NoAgent
                  THEN Append(acts,
                         [type |-> "status_update", agentId |-> systemAgent.id,
                          message |-> "[API] Updated \"" \o ts[t].title \o "\" to "
                                      \o normalizedStatus,
                          targetId |-> ts[t].id])
                  ELSE acts,
              result |-> [success |-> TRUE, taskId |-> args.taskId,
                          internalId |-> ts[t].id, status |-> normalizedStatus]]

UpdateStatusByExternalId(args) ==
    LET out == updateStatusByExternalId(agents, tasks, activities, args)
    IN  /\ tasks' = out.tasks
        /\ activities' = out.activities
        /\ last' = [op |-> "updateStatusByExternalId", args |-> args, threw |-> FALSE,
                    before |-> [tasks |-> tasks, activities |-> activities],
                    result |-> out.result]
        /\ UNCHANGED <<agents, nextId, msgVars, syncVars>>

(***************************************************************************)
(* Task creation and the fix-unassigned maintenance run                    *)
(***************************************************************************)
MaxTasks == 2

TaskDirectories ==
    {Restrict(AgentTemplates, keep) :
        keep \in {{}, {1}, {1, 2}, {1, 2, 3, 5}, {1, 4, 5, 6}, 1..6}}

WebhookCreateArgs ==
    {[title |-> t.title, description |-> t.description, tags |-> t.tags,
      assignee |-> a, status |-> "", priority |-> ""] :
        t \in TaskTexts, a \in {"", "CODER", "Ghost"}}

BoardCreateArgs ==
    {[title |-> t.title, description |-> t.description, tags |-> t.tags,
      assignee |-> a, autoAssign |-> f, status |-> "inbox", priority |-> ""] :
        t \in TaskTexts, a \in {"", "Ghost"}, f \in {"undefined", "false"}}

CreateInit ==
    /\ agents \in TaskDirectories
    /\ EmptyStores

CreateNext ==
    \/ \E args \in WebhookCreateArgs : Len(tasks) < MaxTasks /\ CreateTaskWithAgent(args)
    \/ \E args \in BoardCreateArgs : Len(tasks) < MaxTasks /\ CreateTask(args)
    \/ FixUnassignedTasks

SpecCreate == CreateInit /\ [][CreateNext]_vars

(***************************************************************************)
(* The two creation paths called with an explicit assignee                 *)
(***************************************************************************)
\* "CODER" and "developer" name Coder by name and by role; nobody is "Ghost"
ExplicitAssignees == {"CODER", "developer", "Ghost"}

PathWebhookArgs ==
    {[title |-> t.title, description |-> t.description, tags |-> t.tags,
      assignee |-> a, status |-> "", priority |-> ""] :
        t \in TaskTexts, a \in ExplicitAssignees}

PathBoardArgs ==
    {[title |-> t.title, description |-> t.description, tags |-> t.tags,
      assignee |-> a, autoAssign |-> "undefined", status |-> "inbox", priority |-> ""] :
        t \in TaskTexts, a \in ExplicitAssignees}

PathsNext ==
    \/ \E args \in PathWebhookArgs : Len(tasks) < MaxTasks /\ CreateTaskWithAgent(args)
    \/ \E args \in PathBoardArgs : Len(tasks) < MaxTasks /\ CreateTask(args)

SpecPaths == CreateInit /\ [][PathsNext]_vars

(***************************************************************************)
(* Bulk archive from the board                                             *)
(***************************************************************************)
MaxActivities == 2

BatchDirectories == {Restrict(AgentTemplates, keep) : keep \in {{1}, {1, 5}}}

PlainCreateArgs(texts) ==
    {[title |-> t.title, description |-> t.description, tags |-> t.tags,
      assignee |-> "", autoAssign |-> "false", status |-> "inbox", priority |-> ""] :
        t \in texts}

\* the elements of a set of numbers in ascending order
RECURSIVE Ascending(_)
Ascending(S) ==
    IF S = {} THEN <<>>
    ELSE LET m == CHOOSE x \in S : \A y \in S : x <= y
         IN  <<m>> \o Ascending(S \ {m})

\* the selections of the board: lists of distinct task ids; the id
\* MaxTasks + 1 is never given to a task
TaskIdLists == {Ascending(S) : S \in SUBSET (1..(MaxTasks + 1))}

BatchInit ==
    /\ agents \in BatchDirectories
    /\ EmptyStores

BatchNext ==
    \/ \E args \in PlainCreateArgs({Text("Write summary", "", <<"misc">>)}) :
          Len(tasks) < MaxTasks /\ CreateTask(args)
    \/ \E ids \in TaskIdLists, k \in 1..Len(agents) :
          /\ Len(activities) < MaxActivities
          /\ BatchArchive([taskIds |-> ids, agentId |-> agents[k].id])

SpecBatch == BatchInit /\ [][BatchNext]_vars

(***************************************************************************)
(* /tasks/update                                                           *)
(***************************************************************************)
ExtDirectories == {Restrict(AgentTemplates, keep) : keep \in {{}, {1, 5}, {1, 2, 5}}}

ExtStatuses == {"INBOX", "ASSIGNED", "IN_PROGRESS", "DONE",
                "inbox", "assigned", "in_progress", "review", "done", "archived"}

\* an assignee comes with the move to "assigned"
ExtArgs ==
    {[taskId |-> t, status |-> st, assignee |-> a] :
        t \in {"MC-1", "MC-9"}, st \in ExtStatuses, a \in {""}}
    \cup
    {[taskId |-> t, status |-> st, assignee |-> "coder"] :
        t \in {"MC-1", "MC-9"}, st \in {"ASSIGNED", "assigned"}}

ExtInit ==
    /\ agents \in ExtDirectories
    /\ EmptyStores

ExtNext ==
    \/ \E args \in PlainCreateArgs({Text("MC-1 Build UI mockup", "", <<>>),
                                    Text("MC-12 Fix login bug", "", <<"backend">>)}) :
          Len(tasks) < MaxTasks /\ CreateTask(args)
    \/ \E args \in ExtArgs :
          Len(activities) < MaxActivities /\ UpdateStatusByExternalId(args)

SpecExt == ExtInit /\ [][ExtNext]_vars

(***************************************************************************)
(* The comment thread of a task: messages.send, subscribe, unsubscribe     *)
(***************************************************************************)
\* the owner's agent id
SAMI_AGENT_ID == 1

\* the last position of the run of \w characters that starts at position i
RECURSIVE WordRunEnd(_, _)
WordRunEnd(s, i) ==
    IF i + 1 <= Len(s) /\ IsWordChar(CharAt(s, i + 1)) THEN WordRunEnd(s, i + 1) ELSE i

\* the last position of the match of /@(\w+(?:[\/\s]\w+)?)/ that starts at the
\* "@" at position i: the longest run of \w, and then, when one "/" or white
\* space character followed by \w comes next, that character and the next run
MentionEnd(s, i) ==
    LET e == WordRunEnd(s, i + 1)
    IN  IF /\ e + 2 <= Len(s)
           /\ (CharAt(s, e + 1) = "/" \/ IsSpaceChar(CharAt(s, e + 1)))
           /\ IsWordChar(CharAt(s, e + 2))
        THEN WordRunEnd(s, e + 2)
        ELSE e

\* content.match(mentionRegex) || [] from position i on: the matches from left
\* to right, each search resuming after the previous match
RECURSIVE matchMentions(_, _)
matchMentions(s, i) ==
    IF i > Len(s) THEN <<>>
    ELSE IF CharAt(s, i) = "@" /\ i + 1 <= Len(s) /\ IsWordChar(CharAt(s, i + 1))
         THEN <<SubSeq(s, i, MentionEnd(s, i))>> \o matchMentions(s, MentionEnd(s, i) + 1)
         ELSE matchMentions(s, i + 1)

\* String.prototype.trim
RECURSIVE trim(_)
trim(s) ==
    IF s = "" THEN ""
    ELSE IF IsSpaceChar(CharAt(s, 1)) THEN trim(SubSeq(s, 2, Len(s)))
    ELSE IF IsSpaceChar(CharAt(s, Len(s))) THEN trim(SubSeq(s, 1, Len(s) - 1))
    ELSE s

\* s.replace(/[\s\/]+/g, '')
RECURSIVE stripSpaceSlash(_)
stripSpaceSlash(s) ==
    IF s = "" THEN ""
    ELSE (IF CharAt(s, 1) = "/" \/ IsSpaceChar(CharAt(s, 1)) THEN "" ELSE CharAt(s, 1))
            \o stripSpaceSlash(SubSeq(s, 2, Len(s)))

\* mention.slice(1).trim()
mentionName(mention) == trim(SubSeq(mention, 2, Len(mention)))

\* agents.find(...) of the mention loop: the first agent whose name equals the
\* mentioned name, in lower case, with or without spaces and slashes
findMentioned(dir, name) ==
    LET i == FirstIndex({k \in 1..Len(dir) :
                \/ toLowerCase(dir[k].name) = toLowerCase(name)
                \/ stripSpaceSlash(toLowerCase(dir[k].name))
                      = stripSpaceSlash(toLowerCase(name))})
    IN  IF i = 0 THEN NoAgent ELSE dir[i]

HasSub(subs, agentId, taskId) ==
    \E k \in 1..Len(subs) : subs[k].agentId = agentId /\ subs[k].taskId = taskId

autoSubscribe_NoLookup(subs, agentId, taskId) ==
    Append(subs, [agentId |-> agentId, taskId |-> taskId])

\* insert the subscription unless the agent has one for the task
autoSubscribe(subs, agentId, taskId) ==
    IF HasSub(subs, agentId, taskId) THEN subs
    ELSE Append(subs, [agentId |-> agentId, taskId |-> taskId])

Notification(agentId, content) ==
    [mentionedAgentId |-> agentId, content |-> content, delivered |-> FALSE]

\* sender?.name || "Someone"
senderName(sender) == IF sender.name # "" THEN sender.name ELSE "Someone"

ownerContent(task) ==
    "Sami commented on \"" \o task.title \o "\", awaiting your response"

mentionContent(sender, task, content) ==
    senderName(sender) \o " mentioned you in \"" \o task.title \o "\": " \o content

subscribedContent(sender, task, content) ==
    senderName(sender) \o " posted in \"" \o task.title \o "\" (subscribed): " \o content

\* is the sender the owner
isOwner(senderId, sender) == senderId = SAMI_AGENT_ID \/ sender.name = "Sami"

ownerNotify_FirstAssigneeOnly(notes, assigneeIds, senderId, task) ==
    IF assigneeIds # <<>> /\ Head(assigneeIds) # senderId
    THEN Append(notes, Notification(Head(assigneeIds), ownerContent(task)))
    ELSE notes

\* the owner rule: one notification for each assignee but the sender
RECURSIVE ownerNotify(_, _, _, _)
ownerNotify(notes, assigneeIds, senderId, task) ==
    IF assigneeIds = <<>> THEN notes
    ELSE ownerNotify(IF Head(assigneeIds) # senderId
                     THEN Append(notes, Notification(Head(assigneeIds), ownerContent(task)))
                     ELSE notes,
                     Tail(assigneeIds), senderId, task)

mentionNotify_SenderToo(st, agent, c) ==
    [subs |-> autoSubscribe(st.subs, agent.id, c.taskId),
     notes |-> Append(st.notes, Notification(agent.id, c.text)),
     notified |-> st.notified \cup {agent.id}]

mentionNotify_NoSubscribe(st, agent, c) ==
    IF agent.id # c.senderId
    THEN [subs |-> st.subs,
          notes |-> Append(st.notes, Notification(agent.id, c.text)),
          notified |-> st.notified \cup {agent.id}]
    ELSE st

\* a mentioned agent who is not the sender is notified, noted as notified and
\* subscribed; c carries the sender, the task and the notification text
mentionNotify(st, agent, c) ==
    IF agent.id # c.senderId
    THEN [subs |-> autoSubscribe(st.subs, agent.id, c.taskId),
          notes |-> Append(st.notes, Notification(agent.id, c.text)),
          notified |-> st.notified \cup {agent.id}]
    ELSE st

\* the @all branch: every agent of the directory in turn
RECURSIVE notifyAll(_, _, _)
notifyAll(st, dir, c) ==
    IF dir = <<>> THEN st
    ELSE notifyAll(mentionNotify(st, Head(dir), c), Tail(dir), c)

\* the mention loop
RECURSIVE mentionLoop(_, _, _, _)
mentionLoop(st, mentions, dir, c) ==
    IF mentions = <<>> THEN st
    ELSE LET name == mentionName(Head(mentions))
             agent == findMentioned(dir, name)
             step == IF toLowerCase(name) = "all" THEN notifyAll(st, dir, c)
                     ELSE IF agent # NoAgent THEN mentionNotify(st, agent, c)
                     ELSE st
         IN  mentionLoop(step, Tail(mentions), dir, c)

subscriberLoop_Nobody(notes, subs, notified, c, text) == notes

\* the subscriber loop: the task's subscribers but the sender and those the
\* mention loop notified
RECURSIVE subscriberLoop(_, _, _, _, _)
subscriberLoop(notes, subs, notified, c, text) ==
    IF subs = <<>> THEN notes
    ELSE subscriberLoop(
            IF /\ Head(subs).taskId = c.taskId
               /\ Head(subs).agentId # c.senderId
               /\ Head(subs).agentId \notin notified
            THEN Append(notes, Notification(Head(subs).agentId, text))
            ELSE notes,
            Tail(subs), notified, c, text)

\* messages.send
Send(args) ==
    LET ti == TaskIndex(tasks, args.taskId)
        task == tasks[ti]
        sender == AgentById(agents, args.agentId)
        c == [senderId |-> args.agentId, taskId |-> args.taskId,
              text |-> mentionContent(sender, task, args.content)]
        own == autoSubscribe(subscriptions, args.agentId, args.taskId)
        owner == IF isOwner(args.agentId, sender)
                 THEN ownerNotify(notifications, task.assigneeIds, args.agentId, task)
                 ELSE notifications
        mentioned == mentionLoop([subs |-> own, notes |-> owner, notified |-> {}],
                                 matchMentions(args.content, 1), agents, c)
    IN  \/ /\ ti = 0
           /\ last' = [op |-> "send", args |-> args, threw |-> TRUE,
                       before |-> [subscriptions |-> subscriptions,
                                   notifications |-> notifications,
                                   messages |-> messages, activities |-> activities]]
           /\ UNCHANGED <<agents, tasks, activities, msgVars, syncVars, nextId>>
        \/ /\ ti # 0
           /\ messages' = Append(messages,
                    [taskId |-> args.taskId, fromAgentId |-> args.agentId,
                     content |-> args.content])
           /\ activities' = Append(activities,
                    [type |-> "message", agentId |-> args.agentId,
                     message |-> "commented on \"" \o task.title \o "\"",
                     targetId |-> args.taskId])
           /\ subscriptions' = mentioned.subs
           /\ notifications' =
                 subscriberLoop(mentioned.notes, mentioned.subs, mentioned.notified, c,
                                subscribedContent(sender, task, args.content))
           /\ last' = [op |-> "send", args |-> args, threw |-> FALSE,
                       before |-> [subscriptions |-> subscriptions,
                                   notifications |-> notifications]]
           /\ UNCHANGED <<agents, tasks, syncVars, nextId>>

\* subscriptions.subscribe
Subscribe(args) ==
    /\ subscriptions' = autoSubscribe(subscriptions, args.agentId, args.taskId)
    /\ last' = [op |-> "subscribe", args |-> args, threw |-> FALSE]
    /\ UNCHANGED <<agents, tasks, activities, messages, notifications, syncVars, nextId>>

\* subscriptions.unsubscribe: the first subscription of the agent to the task
\* is deleted
Unsubscribe(args) ==
    LET i == FirstIndex({k \in 1..Len(subscriptions) :
                /\ subscriptions[k].agentId = args.agentId
                /\ subscriptions[k].taskId = args.taskId})
    IN  /\ subscriptions' =
              IF i = 0 THEN subscriptions
              ELSE SubSeq(subscriptions, 1, i - 1)
                      \o SubSeq(subscriptions, i + 1, Len(subscriptions))
        /\ last' = [op |-> "unsubscribe", args |-> args, threw |-> FALSE]
        /\ UNCHANGED <<agents, tasks, activities, messages, notifications, syncVars,
                       nextId>>

MaxMessages == 2

MsgDirectory == Restrict(AgentTemplates, {1, 2, 5})

MsgTask(id, title, assigneeIds) ==
    [id |-> id, title |-> title, description |-> "", status |-> "in_progress",
     assigneeIds |-> assigneeIds, tags |-> <<>>, priority |-> "normal"]

MsgTasks == << MsgTask(1, "Fix login bug", <<1, 5>>), MsgTask(2, "Write summary", <<>>) >>

MsgContents == {"@all please review", "@all", "@Coder", "@coder, @Coder", "hello"}

SendArgs ==
    {[taskId |-> 1, agentId |-> a, content |-> c] : a \in {1, 5}, c \in MsgContents}
    \cup {[taskId |-> 2, agentId |-> a, content |-> c] : a \in {1, 5}, c \in {"@all", "hello"}}
    \cup {[taskId |-> 3, agentId |-> 5, content |-> "hello"]}

SubscriptionArgs == {[agentId |-> 2, taskId |-> 1]}

MsgInit ==
    /\ agents = MsgDirectory
    /\ tasks = MsgTasks
    /\ activities = <<>>
    /\ messages = <<>>
    /\ subscriptions = <<>>
    /\ notifications = <<>>
    /\ objectives = <<>>
    /\ projects = <<>>
    /\ plannerState = <<>>
    /\ documents = <<>>
    /\ play = NoPlay
    /\ txns = <<>>
    /\ nextId = 3
    /\ last = NoCall

MsgNext ==
    \/ \E args \in SendArgs : Len(messages) < MaxMessages /\ Send(args)
    \/ \E args \in SubscriptionArgs : Subscribe(args)
    \/ \E args \in SubscriptionArgs : Unsubscribe(args)

SpecMsg == MsgInit /\ [][MsgNext]_vars

(***************************************************************************)
(* Mentions in a directory where names and roles coincide                  *)
(***************************************************************************)
\* createAgent inserts without looking for an agent of the same name, so a
\* directory can hold "Coder" and "coder", and an agent named like the role
\* of another
MentionDirectory ==
    Restrict(AgentTemplates, {1, 3, 5})
        \o << [id |-> 8, name |-> "coder", role |-> "Intern"],
              [id |-> 9, name |-> "Designer", role |-> "Reviewer"] >>

MentionContents ==
    {"@Coder", "@Designer", "@UI/UX Expert", "@uiux expert", "@Developer", "@Nobody"}

MentionArgs ==
    {[taskId |-> 2, agentId |-> a, content |-> c] : a \in {1, 5}, c \in MentionContents}

MentionInit ==
    /\ agents = MentionDirectory
    /\ tasks = MsgTasks
    /\ activities = <<>>
    /\ messages = <<>>
    /\ subscriptions = <<>>
    /\ notifications = <<>>
    /\ objectives = <<>>
    /\ projects = <<>>
    /\ plannerState = <<>>
    /\ documents = <<>>
    /\ play = NoPlay
    /\ txns = <<>>
    /\ nextId = 3
    /\ last = NoCall

MentionNext ==
    \E args \in MentionArgs : Len(messages) < MaxMessages /\ Send(args)

SpecMention == MentionInit /\ [][MentionNext]_vars

(***************************************************************************)
(* Bulk operations and messages on tasks that may be missing               *)
(***************************************************************************)
\* selections whose last id may belong to no task
AtomicIdLists == {<<1>>, <<1, 2>>, <<1, MaxTasks + 1>>, <<MaxTasks + 1, 1>>}

AtomicInit ==
    /\ agents = Restrict(AgentTemplates, {1, 5})
    /\ EmptyStores

AtomicNext ==
    \/ \E args \in PlainCreateArgs({Text("Write summary", "", <<"misc">>)}) :
          Len(tasks) < MaxTasks /\ CreateTask(args)
    \/ \E ids \in AtomicIdLists :
          /\ Len(activities) < MaxActivities
          /\ BatchArchive([taskIds |-> ids, agentId |-> 1])
    \/ \E ids \in AtomicIdLists :
          /\ Len(activities) < MaxActivities
          /\ BatchUpdatePriority([taskIds |-> ids, agentId |-> 1, priority |-> "high"])
    \/ \E ids \in AtomicIdLists :
          /\ Len(activities) < MaxActivities
          /\ BatchAssign([taskIds |-> ids, agentId |-> 1, assigneeIds |-> <<5>>])
    \/ \E ids \in AtomicIdLists :
          /\ Len(activities) < MaxActivities
          /\ BatchDeleteTasks([taskIds |-> ids, agentId |-> 1])
    \/ \E t \in {1, MaxTasks + 1} :
          /\ Len(activities) < MaxActivities
          /\ Send([taskId |-> t, agentId |-> 5, content |-> "@Sami"])

SpecAtomic == AtomicInit /\ [][AtomicNext]_vars

(***************************************************************************)
(* The external sync gateway.  An objective carries objectiveId, title,    *)
(* status, progress and targetDate (the empty string when absent); the     *)
(* other fields are copied the same way.  A project carries projectId,     *)
(* name, status and objectiveId.                                           *)
(***************************************************************************)
FirstByKey_NeverFound(table, key, id) == 0

\* the position of the first record with this external id, or 0:
\* withIndex("by_objectiveId" / "by_projectId", q => q.eq(...)).first()
FirstByKey(table, key, id) == FirstIndex({k \in 1..Len(table) : table[k][key] = id})

upsert_CountsEveryElementCreated(acc, key, obj) ==
    [acc EXCEPT !.created = @ + 1, !.ids = Append(@, obj[key])]

upsert_KeepsFirstFields(acc, key, obj) ==
    LET existing == FirstByKey(acc.table, key, obj[key])
    IN  IF existing # 0
        THEN [acc EXCEPT !.updated = @ + 1, !.ids = Append(@, obj[key])]
        ELSE [acc EXCEPT
                !.table = Append(@, [f \in DOMAIN obj \cup {"id"} |->
                                        IF f = "id" THEN acc.nextId ELSE obj[f]]),
                !.nextId = @ + 1,
                !.created = @ + 1,
                !.ids = Append(@, obj[key])]

\* the loop body of syncObjectives / syncProjects on the running answer:
\* patch the existing record with every field of the element but the key,
\* or insert the element
upsert(acc, key, obj) ==
    LET existing == FirstByKey(acc.table, key, obj[key])
    IN  IF existing # 0
        THEN [acc EXCEPT
                !.table[existing] =
                    [f \in DOMAIN @ |-> IF f \in DOMAIN obj \ {key} THEN obj[f] ELSE @[f]],
                !.updated = @ + 1,
                !.ids = Append(@, obj[key])]
        ELSE [acc EXCEPT
                !.table = Append(@, [f \in DOMAIN obj \cup {"id"} |->
                                        IF f = "id" THEN acc.nextId ELSE obj[f]]),
                !.nextId = @ + 1,
                !.created = @ + 1,
                !.ids = Append(@, obj[key])]

RECURSIVE upsertAll(_, _, _)
upsertAll(acc, key, payload) ==
    IF payload = <<>> THEN acc
    ELSE upsertAll(upsert(acc, key, Head(payload)), key, Tail(payload))

\* syncObjectives / syncProjects on a table: the table it leaves, the counts
\* and the id list it answers
syncTable(table, nid, key, payload) ==
    upsertAll([table |-> table, nextId |-> nid, created |-> 0, updated |-> 0,
               ids |-> <<>>], key, payload)

KeyOf(kind) == IF kind = "syncObjectives" THEN "objectiveId" ELSE "projectId"

TableOf(kind) == IF kind = "syncObjectives" THEN objectives ELSE projects

\* what a call has read: the records under the external ids of its payload
ReadSet(table, key, payload) ==
    SelectSeq(table, LAMBDA r : \E k \in 1..Len(payload) : payload[k][key] = r[key])

MaxInFlight == 2

\* a delivery arrives: the mutation starts on a snapshot of the store
Begin(kind, payload) ==
    /\ BagCardinality(txns) < MaxInFlight
    /\ txns' = txns (+) SetToBag({[kind |-> kind, payload |-> payload,
                 read |-> ReadSet(TableOf(kind), KeyOf(kind), payload)]})
    /\ UNCHANGED <<agents, tasks, activities, msgVars, objectives, projects, plannerState,
                   documents, play,
                   nextId, last>>

\* did the call find none of its external ids in the table
Fresh(table, key, payload) == ReadSet(table, key, payload) = <<>>

\* nothing the mutation read has been written since: it commits as one write
Commit(txn) ==
    /\ BagIn(txn, txns)
    /\ LET kind == txn.kind
           payload == txn.payload
           out == syncTable(TableOf(kind), nextId, KeyOf(kind), payload)
       IN  /\ txn.read = ReadSet(TableOf(kind), KeyOf(kind), payload)
           /\ objectives' = IF kind = "syncObjectives" THEN out.table ELSE objectives
           /\ projects' = IF kind = "syncProjects" THEN out.table ELSE projects
           /\ nextId' = out.nextId
           /\ last' = [op |-> kind, payload |-> payload, threw |-> FALSE,
                       before |-> TableOf(kind),
                       result |-> [created |-> out.created, updated |-> out.updated,
                                   ids |-> out.ids],
                       prev |-> IF last.op = kind
                                THEN [op |-> last.op, payload |-> last.payload,
                                      fresh |-> Fresh(last.before, KeyOf(kind),
                                                      last.payload),
                                      result |-> last.result]
                                ELSE NoCall]
    /\ txns' = txns (-) SetToBag({txn})
    /\ UNCHANGED <<agents, tasks, activities, msgVars, plannerState, documents, play>>

\* a record the mutation read was written by another delivery: the mutation
\* is run again on the store as it is now
Retry(txn) ==
    /\ BagIn(txn, txns)
    /\ LET now == ReadSet(TableOf(txn.kind), KeyOf(txn.kind), txn.payload)
       IN  /\ txn.read # now
           /\ txns' = (txns (-) SetToBag({txn})) (+) SetToBag({[txn EXCEPT !.read = now]})
    /\ UNCHANGED <<agents, tasks, activities, msgVars, objectives, projects, plannerState,
                   documents, play,
                   nextId, last>>

Objective(id, title, progress, targetDate) ==
    [objectiveId |-> id, title |-> title, status |-> "active", progress |-> progress,
     targetDate |-> targetDate]

Project(id, name, objectiveId) ==
    [projectId |-> id, name |-> name, status |-> "active", objectiveId |-> objectiveId]

ObjectivePayloads == {
    << Objective("OBJ-001", "Launch SaaS MVP", 35, "2026-03-01") >>,
    << Objective("OBJ-001", "Launch SaaS MVP", 35, "2026-03-01"),
       Objective("OBJ-002", "Mission Control v2", 60, "") >>,
    << Objective("OBJ-002", "Mission Control v2", 60, ""),
       Objective("OBJ-002", "Mission Control v3", 10, "") >> }

ProjectPayloads == {
    << Project("PROJ-MC", "Mission Control", "OBJ-002") >>,
    << Project("PROJ-MC", "Mission Control", "OBJ-002"),
       Project("PROJ-SAAS", "SaaS Platform", "OBJ-001") >> }

SyncInit ==
    /\ agents = <<>>
    /\ tasks = <<>>
    /\ activities = <<>>
    /\ messages = <<>>
    /\ subscriptions = <<>>
    /\ notifications = <<>>
    /\ objectives = <<>>
    /\ projects = <<>>
    /\ plannerState = <<>>
    /\ documents = <<>>
    /\ play = NoPlay
    /\ txns = EmptyBag
    /\ nextId = 1
    /\ last = NoCall

SyncNext ==
    \/ \E payload \in ObjectivePayloads : Begin("syncObjectives", payload)
    \/ \E payload \in ProjectPayloads : Begin("syncProjects", payload)
    \/ \E txn \in BagToSet(txns) : Commit(txn)
    \/ \E txn \in BagToSet(txns) : Retry(txn)

SpecSync == SyncInit /\ [][SyncNext]_vars

(***************************************************************************)
(* The planner state: /planner/sync and the plannerState mutations.  A row *)
(* carries status, lastRun, iterationCount, costToday, costResetDate,      *)
(* currentObjective (the empty string when absent) and waitingApproval;    *)
(* nextTask and tenantId are copied the way currentObjective is.           *)
(***************************************************************************)
\* a JSON response: new Response(JSON.stringify(body), {status})
Response(status, body) == [status |-> status, body |-> body]

\* the body of every error response: {success: false, error: message}
ErrorBody(message) == [success |-> FALSE, error |-> message]

\* the route has not answered: it goes on to run the mutation
NoResponse == Response(0, [success |-> TRUE])

\* the required fields of /planner/sync, in the order the route checks them
required == <<"status", "lastRun", "iterationCount", "costToday", "costResetDate">>

\* body[field], with the empty string for undefined
Field(obj, field) == IF field \in DOMAIN obj THEN obj[field] ELSE ""

\* the arguments the route hands to syncPlannerState
plannerArgs(obj) ==
    [status |-> obj.status, lastRun |-> obj.lastRun,
     iterationCount |-> obj.iterationCount, costToday |-> obj.costToday,
     costResetDate |-> obj.costResetDate,
     currentObjective |-> Field(obj, "currentObjective"),
     waitingApproval |-> IF "waitingApproval" \in DOMAIN obj THEN obj.waitingApproval
                         ELSE <<>>]

plannerValidate_FieldNotNamed(body) ==
    IF body.json # "object" THEN Response(500, ErrorBody(body.message))
    ELSE IF \E k \in 1..Len(required) : required[k] \notin DOMAIN body.value
         THEN Response(400, ErrorBody("Missing required field"))
         ELSE NoResponse

\* the answer of the route before it runs the mutation, if it gives one: a body that is not JSON makes request.json() throw, the body
\* null makes body[field] throw, and the first required field that is
\* undefined is named
plannerValidate(body) ==
    IF body.json = "invalid" THEN Response(500, ErrorBody(body.message))
    ELSE IF body.json = "null" THEN Response(500, ErrorBody(body.message))
    ELSE LET missing == FirstIndex({k \in 1..Len(required) :
                                        required[k] \notin DOMAIN body.value})
         IN  IF missing # 0
             THEN Response(400, ErrorBody("Missing required field: " \o required[missing]))
             ELSE NoResponse

\* patch: the listed fields of the row are replaced
patch(row, fields) ==
    [f \in DOMAIN row |-> IF f \in DOMAIN fields THEN fields[f] ELSE row[f]]

\* date.toISOString().split("T")[0]
RECURSIVE beforeT(_)
beforeT(s) ==
    IF s = "" \/ CharAt(s, 1) = "T" THEN ""
    ELSE CharAt(s, 1) \o beforeT(SubSeq(s, 2, Len(s)))

NotInitialized == "Planner state not initialized"

plannerFirst_NeverFound(table) == 0

\* ctx.db.query("plannerState").first(): the position of the first row, 0
\* when the table is empty
plannerFirst(table) == IF table = <<>> THEN 0 ELSE 1

\* a plannerState handler on the table: the table it leaves, what it returns,
\* or the error it throws (call.now is new Date().toISOString())
plannerHandler(table, nid, call) ==
    LET existing == plannerFirst(table)
        args == call.args
        patched(fields) == [table EXCEPT ![1] = patch(@, fields)]
        ok(t, result) == [table |-> t, threw |-> FALSE, result |-> result, error |-> ""]
        throw == [table |-> table, threw |-> TRUE, result |-> [success |-> FALSE],
                  error |-> NotInitialized]
    IN  CASE call.kind = "syncPlannerState" ->
               IF existing # 0
               THEN ok(patched(args), [success |-> TRUE, action |-> "updated"])
               ELSE ok(Append(table, [f \in DOMAIN args \cup {"id"} |->
                                        IF f = "id" THEN nid ELSE args[f]]),
                       [success |-> TRUE, action |-> "created"])
          [] call.kind = "initialize" ->
               IF existing # 0
               THEN ok(table, [success |-> TRUE, action |-> "exists", id |-> table[1].id])
               ELSE ok(Append(table,
                          [id |-> nid, status |-> "paused", lastRun |-> call.now,
                           iterationCount |-> 0, costToday |-> 0,
                           costResetDate |-> beforeT(call.now),
                           currentObjective |-> "", waitingApproval |-> <<>>]),
                       [success |-> TRUE, action |-> "created", id |-> nid])
          [] call.kind = "updateStatus" ->
               IF existing # 0
               THEN ok(patched([status |-> args.status]), [success |-> TRUE])
               ELSE throw
          [] call.kind = "addWaitingApproval" ->
               IF existing = 0 THEN throw
               ELSE ok(patched([waitingApproval |->
                          Append(table[1].waitingApproval,
                                 [taskId |-> args.taskId, reason |-> args.reason])]),
                       [success |-> TRUE])
          [] call.kind = "removeWaitingApproval" ->
               IF existing = 0 THEN throw
               ELSE ok(patched([waitingApproval |->
                          SelectSeq(table[1].waitingApproval,
                                    LAMBDA w : w.taskId # args.taskId)]),
                       [success |-> TRUE])
          [] call.kind = "updateCost" ->
               IF existing = 0 THEN throw
               ELSE ok(patched(IF args.costResetDate # ""
                               THEN [costToday |-> args.costToday,
                                     costResetDate |-> args.costResetDate]
                               ELSE [costToday |-> args.costToday]),
                       [success |-> TRUE])

MaxApprovals == 2

\* the entries waiting for approval, those of the calls in flight included
ApprovalsPending ==
    (IF plannerState = <<>> THEN 0 ELSE Len(plannerState[1].waitingApproval))
    + Cardinality({t \in BagToSet(txns) : t.kind = "addWaitingApproval"})

\* what a plannerState mutation reads of the table and uses: whether the
\* first row exists, and its waitingApproval list where the handler edits it
plannerRead(kind, table) ==
    [exists |-> table # <<>>,
     waitingApproval |->
        IF table # <<>> /\ kind \in {"addWaitingApproval", "removeWaitingApproval"}
        THEN table[1].waitingApproval ELSE <<>>]

\* a mutation starts on a snapshot of the plannerState table
PlannerBegin(call) ==
    /\ BagCardinality(txns) < MaxInFlight
    /\ call.kind = "addWaitingApproval" =>
          /\ ApprovalsPending < MaxApprovals
          /\ \A t \in BagToSet(txns) : t.kind # "addWaitingApproval"
    /\ txns' = txns (+) SetToBag({[kind |-> call.kind, args |-> call.args,
                                   now |-> call.now, http |-> call.http,
                                   read |-> plannerRead(call.kind, plannerState)]})

\* POST /planner/sync: the route answers at once when the body does not
\* pass, and runs syncPlannerState otherwise
PlannerSyncRoute(body) ==
    LET early == plannerValidate(body)
    IN  \/ /\ early # NoResponse
           /\ last' = [op |-> "/planner/sync", body |-> body, threw |-> FALSE,
                       ran |-> FALSE, rows |-> Len(plannerState), response |-> early]
           /\ UNCHANGED <<agents, tasks, activities, msgVars, syncVars, nextId>>
        \/ /\ early = NoResponse
           /\ PlannerBegin([kind |-> "syncPlannerState", args |-> plannerArgs(body.value),
                            now |-> "", http |-> TRUE])
           /\ UNCHANGED <<agents, tasks, activities, msgVars, objectives, projects,
                          plannerState, documents, play, nextId, last>>

\* a plannerState mutation called by a client
PlannerCall(call) ==
    /\ PlannerBegin(call)
    /\ UNCHANGED <<agents, tasks, activities, msgVars, objectives, projects,
                   plannerState, documents, play, nextId, last>>

\* the mutation commits: what it read of the table is as it read it.  The route
\* answers 200 with the result, or 500 with the message of the error
PlannerCommit(txn) ==
    /\ BagIn(txn, txns)
    /\ txn.read = plannerRead(txn.kind, plannerState)
    /\ LET out == plannerHandler(plannerState, nextId, txn)
       IN  /\ plannerState' = out.table
           /\ nextId' = IF Len(out.table) > Len(plannerState) THEN nextId + 1 ELSE nextId
           /\ last' = [op |-> txn.kind, args |-> txn.args, threw |-> out.threw,
                       ran |-> TRUE, rows |-> Len(plannerState), result |-> out.result,
                       response |->
                          IF ~txn.http THEN NoResponse
                          ELSE IF out.threw THEN Response(500, ErrorBody(out.error))
                          ELSE Response(200, [out.result EXCEPT !.success = TRUE])]
    /\ txns' = txns (-) SetToBag({txn})
    /\ UNCHANGED <<agents, tasks, activities, msgVars, objectives, projects, documents,
                   play>>

\* what the mutation read was written since: it is run again
PlannerRetry(txn) ==
    /\ BagIn(txn, txns)
    /\ txn.read # plannerRead(txn.kind, plannerState)
    /\ txns' = (txns (-) SetToBag({txn}))
                (+) SetToBag({[txn EXCEPT !.read = plannerRead(txn.kind, plannerState)]})
    /\ UNCHANGED <<agents, tasks, activities, msgVars, objectives, projects,
                   plannerState, documents, play, nextId, last>>

JsonObject(value) == [json |-> "object", value |-> value]

FullBody ==
    [status |-> "running", lastRun |-> "2026-02-01T10:00:00.000Z", iterationCount |-> 0,
     costToday |-> 2, costResetDate |-> "2026-02-01"]

PlannerBodies == {
    JsonObject(FullBody),
    JsonObject([f \in DOMAIN FullBody \cup {"currentObjective", "waitingApproval"} |->
                  IF f = "currentObjective" THEN "OBJ-001"
                  ELSE IF f = "waitingApproval"
                       THEN <<[taskId |-> "MC-1", reason |-> "budget"]>>
                       ELSE FullBody[f]]),
    JsonObject([f \in DOMAIN FullBody \ {"costResetDate"} |-> FullBody[f]]),
    JsonObject([f \in DOMAIN FullBody \ {"status", "costResetDate"} |-> FullBody[f]]),
    JsonObject([f \in DOMAIN FullBody \ {"lastRun"} |-> FullBody[f]]),
    [json |-> "null", message |-> "Cannot read properties of null (reading 'status')"],
    [json |-> "invalid", message |-> "Unexpected end of JSON input"] }

PlannerCalls == {
    [kind |-> "initialize", args |-> <<>>, now |-> "2026-02-01T10:00:00.000Z",
     http |-> FALSE],
    [kind |-> "updateStatus", args |-> [status |-> "paused"], now |-> "", http |-> FALSE],
    [kind |-> "addWaitingApproval", args |-> [taskId |-> "MC-1", reason |-> "budget"],
     now |-> "", http |-> FALSE],
    [kind |-> "removeWaitingApproval", args |-> [taskId |-> "MC-1"], now |-> "",
     http |-> FALSE],
    [kind |-> "updateCost", args |-> [costToday |-> 2, costResetDate |-> "2026-02-02"],
     now |-> "", http |-> FALSE] }

PlannerInit ==
    /\ agents = <<>>
    /\ EmptyStores

PlannerNext ==
    \/ \E body \in PlannerBodies : PlannerSyncRoute(body)
    \/ \E call \in PlannerCalls : PlannerCall(call)
    \/ \E txn \in BagToSet(txns) : PlannerCommit(txn)
    \/ \E txn \in BagToSet(txns) : PlannerRetry(txn)

SpecPlanner == PlannerInit /\ [][PlannerNext]_vars

(***************************************************************************)
(* The webhook routes /tasks/update and /documents/upload                  *)
(***************************************************************************)
\* the statuses /tasks/update accepts
validStatuses == <<"INBOX", "ASSIGNED", "IN_PROGRESS", "DONE",
                   "inbox", "assigned", "in_progress", "review", "done", "archived">>

\* Array.prototype.join(", ")
RECURSIVE joinComma(_)
joinComma(list) ==
    IF list = <<>> THEN ""
    ELSE IF Len(list) = 1 THEN list[1]
    ELSE list[1] \o ", " \o joinComma(Tail(list))

\* POST /tasks/update
TasksUpdateRoute(body) ==
    LET obj == body.value
        args == [taskId |-> obj.taskId, status |-> obj.status,
                 assignee |-> Field(obj, "assignee")]
        out == updateStatusByExternalId(agents, tasks, activities, args)
        early ==
            IF body.json = "invalid" THEN Response(500, ErrorBody(body.message))
            ELSE IF Field(obj, "taskId") = "" \/ Field(obj, "status") = ""
            THEN Response(400, ErrorBody("Missing required fields: taskId and status"))
            ELSE IF \A k \in 1..Len(validStatuses) : validStatuses[k] # obj.status
            THEN Response(400, ErrorBody("Invalid status. Valid values: "
                                          \o joinComma(validStatuses)))
            ELSE NoResponse
    IN  \/ /\ early # NoResponse
           /\ last' = [op |-> "/tasks/update", body |-> body, threw |-> FALSE,
                       ran |-> FALSE, response |-> early]
           /\ UNCHANGED <<agents, tasks, activities, msgVars, syncVars, nextId>>
        \/ /\ early = NoResponse
           /\ tasks' = out.tasks
           /\ activities' = out.activities
           /\ last' = [op |-> "/tasks/update", body |-> body, threw |-> FALSE,
                       ran |-> TRUE,
                       response |-> Response(IF out.result.success THEN 200 ELSE 404,
                                             out.result)]
           /\ UNCHANGED <<agents, msgVars, syncVars, nextId>>

\* documents.create: the document is inserted and its id returned
documentsCreate(docs, nid, args) ==
    Append(docs, [id |-> nid, title |-> args.title, content |-> args.content,
                  type |-> args.type, taskId |-> args.taskId,
                  createdByAgentId |-> args.agentId])

\* POST /documents/upload
DocumentsUploadRoute(body) ==
    LET obj == body.value
        named == FirstIndex({k \in 1..Len(agents) :
                    /\ "agentName" \in DOMAIN obj
                    /\ toLowerCase(agents[k].name) = toLowerCase(obj.agentName)})
        agent == IF named # 0 THEN agents[named]
                 ELSE IF Len(agents) > 0 THEN agents[1] ELSE NoAgent
        task == IF Field(obj, "taskId") = "" THEN 0
                ELSE FirstIndex({k \in 1..Len(tasks) : includes(tasks[k].title, obj.taskId)})
        resolvedTaskId == IF task = 0 THEN NULL ELSE tasks[task].id
        early ==
            IF body.json = "invalid" THEN Response(500, [error |-> body.message])
            ELSE IF Field(obj, "title") = "" \/ Field(obj, "content") = ""
                    \/ Field(obj, "type") = ""
            THEN Response(400, [error |-> "Missing required fields: title, content, type"])
            ELSE IF agent = NoAgent
            THEN Response(404, [error |-> "No agents found"])
            ELSE NoResponse
    IN  \/ /\ early # NoResponse
           /\ last' = [op |-> "/documents/upload", body |-> body, threw |-> FALSE,
                       ran |-> FALSE, response |-> early]
           /\ UNCHANGED <<agents, tasks, activities, msgVars, syncVars, nextId>>
        \/ /\ early = NoResponse
           /\ documents' = documentsCreate(documents, nextId,
                    [title |-> obj.title, content |-> obj.content, type |-> obj.type,
                     taskId |-> resolvedTaskId, agentId |-> agent.id])
           /\ nextId' = nextId + 1
           /\ last' = [op |-> "/documents/upload", body |-> body, threw |-> FALSE,
                       ran |-> TRUE,
                       response |-> Response(200, [success |-> TRUE, documentId |-> nextId,
                                                   taskId |-> resolvedTaskId])]
           /\ UNCHANGED <<agents, tasks, activities, msgVars, objectives, projects,
                          plannerState, play, txns>>

MaxDocuments == 2

InvalidJson == [json |-> "invalid", value |-> <<>>, message |-> "Unexpected end of JSON input"]

TasksUpdateBodies == {
    JsonObject([taskId |-> "MC-1", status |-> "DONE"]),
    JsonObject([taskId |-> "MC-1", status |-> "assigned", assignee |-> "coder"]),
    JsonObject([taskId |-> "MC-9", status |-> "done"]),
    JsonObject([taskId |-> "MC-1", status |-> "finished"]),
    JsonObject([taskId |-> "MC-1"]),
    InvalidJson }

DocumentsUploadBodies == {
    JsonObject([title |-> "Spec", content |-> "text", type |-> "markdown"]),
    JsonObject([title |-> "Spec", content |-> "text", type |-> "markdown",
                taskId |-> "MC-1", agentName |-> "CODER"]),
    JsonObject([title |-> "Spec", type |-> "markdown"]),
    InvalidJson }

RoutesInit ==
    /\ agents \in {Restrict(AgentTemplates, keep) : keep \in {{}, {1, 5}}}
    /\ tasks = <<MsgTask(1, "MC-1 Build UI mockup", <<>>)>>
    /\ activities = <<>>
    /\ messages = <<>>
    /\ subscriptions = <<>>
    /\ notifications = <<>>
    /\ objectives = <<>>
    /\ projects = <<>>
    /\ plannerState = <<>>
    /\ documents = <<>>
    /\ play = NoPlay
    /\ txns = <<>>
    /\ nextId = 2
    /\ last = NoCall

RoutesNext ==
    \/ \E body \in TasksUpdateBodies :
          Len(activities) < MaxActivities /\ TasksUpdateRoute(body)
    \/ \E body \in DocumentsUploadBodies :
          Len(documents) < MaxDocuments /\ DocumentsUploadRoute(body)

SpecRoutes == RoutesInit /\ [][RoutesNext]_vars

(***************************************************************************)
(* Starting a task from the board: handlePlay and triggerAgent.  The call  *)
(* runs in the browser: updateStatus, the fetch of /hooks/agent and        *)
(* linkRun are separate steps, and the store may be read between them.     *)
(***************************************************************************)
\* tasks.updateStatus: the task is patched and one activity logged, or the
\* mutation throws "Task not found"
tasksUpdateStatus(ts, acts, args) ==
    LET t == TaskIndex(ts, args.taskId)
    IN  IF t = 0 THEN [threw |-> TRUE, tasks |-> ts, activities |-> acts]
        ELSE [threw |-> FALSE,
              tasks |-> PatchAll(ts, <<args.taskId>>, "status", args.status),
              activities |-> Append(acts,
                  [type |-> "status_update", agentId |-> args.agentId,
                   message |-> "changed status of \"" \o ts[t].title \o "\" to "
                               \o args.status,
                   targetId |-> args.taskId])]

\* tasks.linkRun: openclawRunId and startedAt are set on the task
linkRun(ts, args, now) ==
    [ts EXCEPT ![TaskIndex(ts, args.taskId)] =
        [f \in DOMAIN @ \cup {"openclawRunId", "startedAt"} |->
            IF f = "openclawRunId" THEN args.openclawRunId
            ELSE IF f = "startedAt" THEN now
            ELSE @[f]]]

\* agents?.find(a => a.name === "Manish")
currentUserAgent(dir) ==
    LET i == FirstIndex({k \in 1..Len(dir) : dir[k].name = "Manish"})
    IN  IF i = 0 THEN NoAgent ELSE dir[i]

\* buildPrompt without the agent preamble and the conversation, which are
\* text around it
buildPrompt(task) ==
    IF task.description # "" /\ task.description # task.title
    THEN task.title \o "\n\n" \o task.description
    ELSE task.title

shouldLink_AnyOk(res) == res.kind = "ok"

\* triggerAgent calls linkRun: the response is OK, its body parses and
\* carries a runId
shouldLink(res) == res.kind = "ok" /\ res.json = "object" /\ res.runId # ""

\* what the fetch of /hooks/agent can give: a thrown error, a response that
\* is not OK, an OK response whose body is not JSON, one without a runId and
\* one with a runId
FetchOutcomes == {
    [kind |-> "throws", json |-> "", runId |-> ""],
    [kind |-> "notOk", json |-> "object", runId |-> ""],
    [kind |-> "ok", json |-> "invalid", runId |-> ""],
    [kind |-> "ok", json |-> "object", runId |-> ""],
    [kind |-> "ok", json |-> "object", runId |-> "run-1"] }

NoFetch == [kind |-> "none", json |-> "", runId |-> ""]

Play(pc, taskId, agentId) ==
    [pc |-> pc, taskId |-> taskId, agentId |-> agentId, message |-> "", res |-> NoFetch,
     committed |-> FALSE, triggered |-> FALSE, linked |-> FALSE, rejected |-> FALSE]

\* handlePlay is called: without a current user it returns at once
PlayStart(taskId) ==
    /\ play.pc \in {"idle", "done"}
    /\ play' = IF currentUserAgent(agents) = NoAgent
               THEN Play("done", taskId, NULL)
               ELSE Play("updating", taskId, currentUserAgent(agents).id)
    /\ last' = [op |-> "handlePlay", args |-> [taskId |-> taskId], threw |-> FALSE]
    /\ UNCHANGED <<agents, tasks, activities, msgVars, objectives, projects,
                   plannerState, documents, txns, nextId>>

\* await updateStatus(...): the mutation commits, or it throws and the call
\* to handlePlay is rejected
PlayUpdateStatus ==
    /\ play.pc = "updating"
    /\ LET out == tasksUpdateStatus(tasks, activities,
                     [taskId |-> play.taskId, status |-> "in_progress",
                      agentId |-> play.agentId])
       IN  /\ tasks' = out.tasks
           /\ activities' = out.activities
           /\ play' = IF out.threw
                      THEN [play EXCEPT !.pc = "done", !.rejected = TRUE]
                      ELSE [play EXCEPT !.pc = "prompting", !.committed = TRUE]
           /\ last' = [op |-> "updateStatus", args |-> [taskId |-> play.taskId],
                       threw |-> out.threw]
    /\ UNCHANGED <<agents, msgVars, objectives, projects, plannerState, documents,
                   txns, nextId>>

\* the task is looked up in the board's list, the prompt is built and
\* /hooks/agent is fetched; an error of the fetch or of the body is caught
PlayTrigger(inList, res) ==
    /\ play.pc = "prompting"
    /\ play' = IF ~inList \/ TaskIndex(tasks, play.taskId) = 0
               THEN [play EXCEPT !.pc = "done"]
               ELSE [play EXCEPT
                        !.pc = IF shouldLink(res) THEN "linking" ELSE "done",
                        !.message = buildPrompt(tasks[TaskIndex(tasks, play.taskId)]),
                        !.res = res,
                        !.triggered = TRUE]
    /\ UNCHANGED <<agents, tasks, activities, msgVars, objectives, projects,
                   plannerState, documents, txns, nextId, last>>

\* await linkRun(...): an error of the mutation is caught as well
PlayLinkRun(now) ==
    /\ play.pc = "linking"
    /\ tasks' = IF TaskIndex(tasks, play.taskId) = 0 THEN tasks
                ELSE linkRun(tasks, [taskId |-> play.taskId,
                                     openclawRunId |-> play.res.runId], now)
    /\ play' = [play EXCEPT !.pc = "done", !.linked = TRUE]
    /\ last' = [op |-> "linkRun", args |-> [taskId |-> play.taskId],
                threw |-> TaskIndex(tasks, play.taskId) = 0]
    /\ UNCHANGED <<agents, activities, msgVars, objectives, projects, plannerState,
                   documents, txns, nextId>>

Manish == [id |-> 7, name |-> "Manish", role |-> "Owner"]

PlayClock == {100}

PlayInit ==
    /\ agents \in {<<Manish>> \o Restrict(AgentTemplates, {5}),
                   Restrict(AgentTemplates, {5}) \o <<Manish>>,
                   Restrict(AgentTemplates, {5})}
    /\ tasks = <<MsgTask(1, "Fix login bug", <<5>>),
                 [MsgTask(2, "Write summary", <<>>) EXCEPT
                     !.status = "inbox", !.description = "One page"]>>
    /\ activities = <<>>
    /\ messages = <<>>
    /\ subscriptions = <<>>
    /\ notifications = <<>>
    /\ objectives = <<>>
    /\ projects = <<>>
    /\ plannerState = <<>>
    /\ documents = <<>>
    /\ play = NoPlay
    /\ txns = <<>>
    /\ nextId = 3
    /\ last = NoCall

PlayNext ==
    \/ \E taskId \in 1..3 : Len(activities) < MaxActivities /\ PlayStart(taskId)
    \/ PlayUpdateStatus
    \/ \E inList \in BOOLEAN, res \in FetchOutcomes : PlayTrigger(inList, res)
    \/ \E now \in PlayClock : PlayLinkRun(now)

SpecPlay == PlayInit /\ [][PlayNext]_vars

(***************************************************************************)
(* /tasks/update on a board where one external id is part of another       *)
(***************************************************************************)
\* "MC-1" is in the title of both tasks, "MC-12" in one, "MC-9" in none
LookupTasks ==
    { << MsgTask(1, "MC-12 Fix login bug", <<>>), MsgTask(2, "MC-1 Build UI mockup", <<>>) >>,
      << MsgTask(1, "MC-1 Build UI mockup", <<>>), MsgTask(2, "MC-12 Fix login bug", <<>>) >> }

LookupArgs ==
    {[taskId |-> t, status |-> st, assignee |-> a] :
        t \in {"MC-1", "MC-12", "MC-9"}, st \in {"DONE", "review"}, a \in {"", "coder"}}

LookupInit ==
    /\ agents \in ExtDirectories
    /\ tasks \in LookupTasks
    /\ activities = <<>>
    /\ messages = <<>>
    /\ subscriptions = <<>>
    /\ notifications = <<>>
    /\ objectives = <<>>
    /\ projects = <<>>
    /\ plannerState = <<>>
    /\ documents = <<>>
    /\ play = NoPlay
    /\ txns = <<>>
    /\ nextId = 3
    /\ last = NoCall

LookupNext ==
    \/ \E args \in LookupArgs :
          Len(activities) < MaxActivities /\ UpdateStatusByExternalId(args)
    \/ \E body \in TasksUpdateBodies :
          Len(activities) < MaxActivities /\ TasksUpdateRoute(body)

SpecLookup == LookupInit /\ [][LookupNext]_vars

(***************************************************************************)
(* Removals: deleteAgent, notifications.remove and markDelivered, next to  *)
(* batchDeleteTasks, unsubscribe and messages.send                         *)
(***************************************************************************)
\* seq without its element at position i
RemoveAt(seq, i) == SubSeq(seq, 1, i - 1) \o SubSeq(seq, i + 1, Len(seq))

DeleteAgent_PurgesLog(args) ==
    LET i == FirstIndex({k \in 1..Len(agents) : agents[k].id = args.id})
    IN  /\ i # 0
        /\ agents' = RemoveAt(agents, i)
        /\ activities' = SelectSeq(activities, LAMBDA a : a.agentId # args.id)
        /\ last' = [op |-> "deleteAgent", args |-> args, threw |-> FALSE]
        /\ UNCHANGED <<tasks, nextId, msgVars, syncVars>>

\* agents.deleteAgent: the agent is deleted, or the mutation throws "Agent
\* not found"; no other table is read or written
DeleteAgent(args) ==
    LET i == FirstIndex({k \in 1..Len(agents) : agents[k].id = args.id})
    IN  /\ agents' = IF i = 0 THEN agents ELSE RemoveAt(agents, i)
        /\ last' = [op |-> "deleteAgent", args |-> args, threw |-> i = 0]
        /\ UNCHANGED <<tasks, activities, nextId, msgVars, syncVars>>

\* notifications.remove: the notification at this position is deleted; the
\* delete of a notification that is gone throws
RemoveNotification(k) ==
    /\ notifications' = IF k \in 1..Len(notifications) THEN RemoveAt(notifications, k)
                        ELSE notifications
    /\ last' = [op |-> "remove", args |-> [id |-> k],
                threw |-> k \notin 1..Len(notifications)]
    /\ UNCHANGED <<agents, tasks, activities, messages, subscriptions, syncVars, nextId>>

\* notifications.markDelivered
MarkDelivered(k) ==
    /\ notifications' = IF k \in 1..Len(notifications)
                        THEN [notifications EXCEPT ![k].delivered = TRUE]
                        ELSE notifications
    /\ last' = [op |-> "markDelivered", args |-> [id |-> k],
                threw |-> k \notin 1..Len(notifications)]
    /\ UNCHANGED <<agents, tasks, activities, messages, subscriptions, syncVars, nextId>>

RemovalSendArgs ==
    {[taskId |-> 1, agentId |-> 5, content |-> "@Theeb"],
     [taskId |-> 2, agentId |-> 1, content |-> "hello"]}

RemovalInit ==
    /\ agents = MsgDirectory
    /\ tasks = MsgTasks
    /\ activities = <<>>
    /\ messages = <<>>
    /\ subscriptions = <<>>
    /\ notifications = <<>>
    /\ objectives = <<>>
    /\ projects = <<>>
    /\ plannerState = <<>>
    /\ documents = <<>>
    /\ play = NoPlay
    /\ txns = <<>>
    /\ nextId = 3
    /\ last = NoCall

RemovalNext ==
    \/ \E args \in RemovalSendArgs : Len(activities) < MaxActivities /\ Send(args)
    \/ \E args \in SubscriptionArgs : Subscribe(args)
    \/ \E args \in SubscriptionArgs \cup {[agentId |-> 5, taskId |-> 1]} : Unsubscribe(args)
    \/ \E ids \in {<<1>>, <<2, 1>>} :
          /\ Len(activities) < MaxActivities
          /\ BatchDeleteTasks([taskIds |-> ids, agentId |-> 1])
    \/ \E id \in {2, 5} : DeleteAgent([id |-> id])
    \/ \E k \in 1..2 : RemoveNotification(k)
    \/ \E k \in 1..2 : MarkDelivered(k)

SpecRemoval == RemovalInit /\ [][RemovalNext]_vars

(***************************************************************************)
(* Objectives and projects created and updated by hand, next to the sync   *)
(***************************************************************************)
\* objectives.create / projects.create: the record is inserted as given
catalogCreate(table, nid, obj) ==
    Append(table, [f \in DOMAIN obj \cup {"id"} |-> IF f = "id" THEN nid ELSE obj[f]])

\* objectives.update / projects.update: the first record under the external
\* id is patched with the fields given, or the mutation throws
catalogUpdate(table, key, args) ==
    LET existing == FirstByKey(table, key, args[key])
    IN  IF existing = 0 THEN [threw |-> TRUE, table |-> table]
        ELSE [threw |-> FALSE,
              table |-> [table EXCEPT ![existing] =
                            [f \in DOMAIN @ |->
                                IF f \in DOMAIN args \ {key} THEN args[f] ELSE @[f]]]]

MaxRecords == 2

CatalogCreate(kind, obj) ==
    /\ Len(IF kind = "objectives" THEN objectives ELSE projects) < MaxRecords
    /\ objectives' = IF kind = "objectives" THEN catalogCreate(objectives, nextId, obj)
                     ELSE objectives
    /\ projects' = IF kind = "projects" THEN catalogCreate(projects, nextId, obj)
                   ELSE projects
    /\ nextId' = nextId + 1
    /\ last' = [op |-> kind \o ".create", args |-> obj, threw |-> FALSE]
    /\ UNCHANGED <<agents, tasks, activities, msgVars, plannerState, documents, play,
                   txns>>

CatalogUpdate(kind, args) ==
    LET out == IF kind = "objectives" THEN catalogUpdate(objectives, "objectiveId", args)
               ELSE catalogUpdate(projects, "projectId", args)
    IN  /\ objectives' = IF kind = "objectives" THEN out.table ELSE objectives
        /\ projects' = IF kind = "projects" THEN out.table ELSE projects
        /\ last' = [op |-> kind \o ".update", args |-> args, threw |-> out.threw]
        /\ UNCHANGED <<agents, tasks, activities, msgVars, plannerState, documents, play,
                       txns, nextId>>

ObjectiveCreates ==
    {Objective("OBJ-001", "Launch SaaS MVP", 35, "2026-03-01"),
     Objective("OBJ-002", "Mission Control v2", 60, "")}

ObjectiveUpdates ==
    {[objectiveId |-> "OBJ-001", progress |-> 50],
     [objectiveId |-> "OBJ-009", title |-> "Nothing"]}

ProjectCreates == {Project("PROJ-MC", "Mission Control", "OBJ-002")}

ProjectUpdates == {[projectId |-> "PROJ-MC", status |-> "complete"]}

CatalogNext ==
    \/ \E obj \in ObjectiveCreates : CatalogCreate("objectives", obj)
    \/ \E obj \in ProjectCreates : CatalogCreate("projects", obj)
    \/ \E args \in ObjectiveUpdates : CatalogUpdate("objectives", args)
    \/ \E args \in ProjectUpdates : CatalogUpdate("projects", args)
    \/ \E payload \in {<<obj>> : obj \in ObjectiveCreates} :
          Len(objectives) < MaxRecords /\ Begin("syncObjectives", payload)
    \/ \E payload \in {<<obj>> : obj \in ProjectCreates} :
          Len(projects) < MaxRecords /\ Begin("syncProjects", payload)
    \/ \E txn \in BagToSet(txns) : Commit(txn)
    \/ \E txn \in BagToSet(txns) : Retry(txn)

SpecCatalog == SyncInit /\ [][CatalogNext]_vars

(***************************************************************************)
(* /agents/status and updateStatusByName.  An agent carries its status and *)
(* currentTaskId here (NULL when it has none).                             *)
(***************************************************************************)
currentTaskIdAfter_IdleAlwaysClears(ts, args, old) ==
    LET task == FirstIndex({k \in 1..Len(ts) : includes(ts[k].title, args.currentTask)})
    IN  IF args.status = "idle" THEN NULL
        ELSE IF args.currentTask # "" /\ task # 0 THEN ts[task].id
        ELSE old

\* the currentTaskId the patch leaves: the first task whose title contains
\* currentTask, nothing when the agent goes idle without a currentTask, the
\* old reference otherwise
currentTaskIdAfter(ts, args, old) ==
    LET task == FirstIndex({k \in 1..Len(ts) : includes(ts[k].title, args.currentTask)})
    IN  IF args.currentTask # ""
        THEN (IF task # 0 THEN ts[task].id ELSE old)
        ELSE IF args.status = "idle" THEN NULL
        ELSE old

\* updateStatusByName on the store: the agents, the activity log and the
\* answer
updateStatusByName(dir, ts, acts, args) ==
    LET a == FirstIndex({k \in 1..Len(dir) :
                \/ toLowerCase(dir[k].name) = toLowerCase(args.agentName)
                \/ toLowerCase(dir[k].role) = toLowerCase(args.agentName)})
    IN  IF a = 0
        THEN [agents |-> dir, activities |-> acts,
              result |-> [success |-> FALSE,
                          error |-> "Agent not found: " \o args.agentName]]
        ELSE [agents |-> [dir EXCEPT
                            ![a].status = args.status,
                            ![a].currentTaskId =
                                currentTaskIdAfter(ts, args, dir[a].currentTaskId)],
              activities |-> Append(acts,
                    [type |-> "agent_status", agentId |-> dir[a].id,
                     message |-> "[API] " \o dir[a].name \o " status changed to "
                                 \o args.status,
                     targetId |-> NULL]),
              result |-> [success |-> TRUE, agentName |-> dir[a].name,
                          status |-> args.status]]

\* the statuses /agents/status accepts
validAgentStatuses == <<"idle", "active", "blocked">>

\* POST /agents/status
AgentsStatusRoute(body) ==
    LET obj == body.value
        args == [agentName |-> obj.agentName, status |-> obj.status,
                 currentTask |-> Field(obj, "currentTask")]
        out == updateStatusByName(agents, tasks, activities, args)
        early ==
            IF body.json = "invalid" THEN Response(500, ErrorBody(body.message))
            ELSE IF Field(obj, "agentName") = "" \/ Field(obj, "status") = ""
            THEN Response(400, ErrorBody("Missing required fields: agentName and status"))
            ELSE IF \A k \in 1..Len(validAgentStatuses) : validAgentStatuses[k] # obj.status
            THEN Response(400, ErrorBody("Invalid status. Valid values: "
                                          \o joinComma(validAgentStatuses)))
            ELSE NoResponse
    IN  \/ /\ early # NoResponse
           /\ last' = [op |-> "/agents/status", body |-> body, threw |-> FALSE,
                       ran |-> FALSE, response |-> early]
           /\ UNCHANGED <<agents, tasks, activities, msgVars, syncVars, nextId>>
        \/ /\ early = NoResponse
           /\ agents' = out.agents
           /\ activities' = out.activities
           /\ last' = [op |-> "/agents/status", body |-> body, threw |-> FALSE,
                       ran |-> TRUE, args |-> args,
                       before |-> [agents |-> agents, activities |-> activities],
                       response |-> Response(IF out.result.success THEN 200 ELSE 404,
                                             out.result)]
           /\ UNCHANGED <<tasks, msgVars, syncVars, nextId>>

\* an agent of the templates with its status and no current task
WithStatus(agent) ==
    [id |-> agent.id, name |-> agent.name, role |-> agent.role, status |-> "idle",
     currentTaskId |-> NULL]

StatusDirectory == [k \in 1..2 |-> WithStatus(Restrict(AgentTemplates, {2, 5})[k])]

AgentsStatusBodies ==
    {JsonObject([agentName |-> n, status |-> st]) :
        n \in {"coder", "Squad Lead", "ghost"}, st \in {"idle", "active", "blocked"}}
    \cup
    {JsonObject([agentName |-> "coder", status |-> st, currentTask |-> ct]) :
        st \in {"idle", "active"}, ct \in {"MC-1", "MC-12", "MC-9"}}
    \cup
    {JsonObject([agentName |-> "coder", status |-> "busy"]),
     JsonObject([agentName |-> "coder"]),
     InvalidJson}

AgentsStatusInit ==
    /\ agents = StatusDirectory
    /\ tasks \in LookupTasks
    /\ activities = <<>>
    /\ messages = <<>>
    /\ subscriptions = <<>>
    /\ notifications = <<>>
    /\ objectives = <<>>
    /\ projects = <<>>
    /\ plannerState = <<>>
    /\ documents = <<>>
    /\ play = NoPlay
    /\ txns = <<>>
    /\ nextId = 3
    /\ last = NoCall

AgentsStatusNext ==
    \E body \in AgentsStatusBodies :
        Len(activities) < MaxActivities /\ AgentsStatusRoute(body)

SpecAgentsStatus == AgentsStatusInit /\ [][AgentsStatusNext]_vars

(***************************************************************************)
(* Claims about the auto-assignment engine                                 *)
(***************************************************************************)
UIUX_RULE == 1
CODER_RULE == 7

TextOfArgs(a) == Text(a.title, a.description, a.tags)
TextOfTask(t) == Text(t.title, t.description, t.tags)

\* the agent carries this name, as its name or as its role
IsAgentNamed(dir, id, name) ==
    \E i \in 1..Len(dir) :
        /\ dir[i].id = id
        /\ \/ toLowerCase(dir[i].name) = toLowerCase(name)
           \/ toLowerCase(dir[i].role) = toLowerCase(name)

BothUiuxAndCoder(t) == {UIUX_RULE, CODER_RULE} \subseteq matchingRules[t]

\* C4 as stated: whenever the text matches a UI/UX pattern and a Coder
\* pattern, autoAssignAgent returns the UI/UX Expert agent, never the Coder
\* agent.
C4_FirstMatchWins_AsStated ==
    (last.op = "autoAssignAgent" /\ BothUiuxAndCoder(last.text)) =>
        /\ IsAgentNamed(agents, last.result, "UI/UX Expert")
        /\ ~IsAgentNamed(agents, last.result, "Coder")

\* C4 amended: whenever the text matches a UI/UX pattern and a Coder pattern
\* and the directory holds an agent named, or with the role, "UI/UX Expert",
\* autoAssignAgent returns that agent (the first such in the directory) and
\* not the Coder agent.
C4_FirstMatchWins ==
    (/\ last.op = "autoAssignAgent"
     /\ BothUiuxAndCoder(last.text)
     /\ findAgentByName(agents, "UI/UX Expert") # NoAgent) =>
        /\ last.result = findAgentByName(agents, "UI/UX Expert").id
        /\ ~IsAgentNamed(agents, last.result, "Coder")

C4_Witness ==
    /\ last.op = "autoAssignAgent"
    /\ BothUiuxAndCoder(last.text)
    /\ findAgentByName(agents, "Coder") # NoAgent
    /\ findAgentByName(agents, "UI/UX Expert") # NoAgent
    /\ last.result = findAgentByName(agents, "UI/UX Expert").id

NoRuleMatches(t) == matchingRules[t] = {}

\* what the fallback must give: Theeb's id and name, or nothing
FallbackIds(dir) ==
    IF findAgentByName(dir, "Theeb") # NoAgent
    THEN <<findAgentByName(dir, "Theeb").id>> ELSE <<>>

FallbackName(dir) ==
    IF findAgentByName(dir, "Theeb") # NoAgent
    THEN findAgentByName(dir, "Theeb").name ELSE NullName

\* C5: when the text matches no rule, the owner is Theeb; without a Theeb in
\* the directory, /tasks/create and fix-unassigned complete without an error,
\* store an empty assignee list and report a null assignee.
C5_Fallback ==
    /\ (/\ last.op = "createTaskWithAgent"
        /\ NoRuleMatches(TextOfArgs(last.args))
        /\ (last.args.assignee = ""
            \/ findAgentByName(agents, last.args.assignee) = NoAgent)) =>
          /\ ~last.threw
          /\ last.result.success
          /\ tasks[TaskIndex(tasks, last.result.taskId)].assigneeIds = FallbackIds(agents)
          /\ last.result.assignee = FallbackName(agents)
    /\ last.op = "fixUnassignedTasks" =>
          /\ ~last.threw
          /\ \A k \in 1..Len(last.result.results) :
               LET r == last.result.results[k]
                   i == TaskIndex(tasks, r.taskId)
               IN  NoRuleMatches(TextOfTask(tasks[i])) =>
                     /\ tasks[i].assigneeIds = FallbackIds(agents)
                     /\ r.assignedTo = FallbackName(agents)

C5_Witness ==
    /\ last.op = "fixUnassignedTasks"
    /\ agents # <<>>
    /\ findAgentByName(agents, "Theeb") = NoAgent
    /\ \E k \in 1..Len(last.result.results) :
          /\ last.result.results[k].assignedTo = NullName
          /\ NoRuleMatches(TextOfTask(tasks[TaskIndex(tasks,
                                            last.result.results[k].taskId)]))

\* C8: fixUnassignedTasks leaves every task that had an assignee as it was,
\* and a run directly after a run that assigned every unassigned task finds
\* nothing unassigned, fixes nothing and changes no task.
C8_FixIdempotent ==
    last.op = "fixUnassignedTasks" =>
        /\ Len(tasks) = Len(last.before)
        /\ \A i \in 1..Len(last.before) :
              Len(last.before[i].assigneeIds) > 0 => tasks[i] = last.before[i]
        /\ (/\ last.prev.op = "fixUnassignedTasks"
            /\ last.prev.result.fixed = last.prev.result.totalUnassigned) =>
              /\ last.result.totalUnassigned = 0
              /\ last.result.fixed = 0
              /\ tasks = last.before

C8_Witness ==
    /\ last.op = "fixUnassignedTasks"
    /\ last.prev.op = "fixUnassignedTasks"
    /\ last.prev.result.fixed > 0
    /\ last.prev.result.fixed = last.prev.result.totalUnassigned
    /\ \E i \in 1..Len(last.prev.before) : Len(last.prev.before[i].assigneeIds) > 0

(***************************************************************************)
(* Claims about the task store                                             *)
(***************************************************************************)
\* C9: batchArchive on n existing tasks leaves all of them archived and
\* appends exactly one activity, whose message is "archived n tasks".
C9_BulkArchiveLogsOnce ==
    (last.op = "batchArchive" /\ ~last.threw) =>
        LET n == Len(last.args.taskIds)
            m == Len(last.before.activities)
        IN  /\ \A k \in 1..n :
                  tasks[TaskIndex(tasks, last.args.taskIds[k])].status = "archived"
            /\ Len(activities) = m + 1
            /\ SubSeq(activities, 1, m) = last.before.activities
            /\ activities[m + 1].message = "archived " \o ToString(n) \o " tasks"

C9_Witness ==
    /\ last.op = "batchArchive"
    /\ ~last.threw
    /\ Cardinality({last.args.taskIds[k] : k \in 1..Len(last.args.taskIds)}) = 2
    /\ Len(last.before.activities) = 1
    /\ \E k \in 1..Len(last.before.tasks) : last.before.tasks[k].status = "inbox"

\* the lowercase enum value of an upper-snake status
LowerStatus(st) ==
    CASE st = "INBOX" -> "inbox"
      [] st = "ASSIGNED" -> "assigned"
      [] st = "IN_PROGRESS" -> "in_progress"
      [] st = "DONE" -> "done"
      [] OTHER -> st

TaskStatuses == {"inbox", "assigned", "in_progress", "review", "done", "archived"}

\* C10: a /tasks/update call with an upper-snake status leaves the tasks, the
\* activity log and the answered status that the same call with the lowercase
\* status leaves from the same store, and every persisted status is a
\* lowercase enum value.
C10_StatusNormalized ==
    /\ \A k \in 1..Len(tasks) : tasks[k].status \in TaskStatuses
    /\ last.op = "updateStatusByExternalId" =>
         LET lower == updateStatusByExternalId(agents, last.before.tasks,
                          last.before.activities,
                          [last.args EXCEPT !.status = LowerStatus(@)])
         IN  /\ tasks = lower.tasks
             /\ activities = lower.activities
             /\ last.result = lower.result

C10_Witness ==
    /\ last.op = "updateStatusByExternalId"
    /\ last.args.status = "IN_PROGRESS"
    /\ last.result.success
    /\ last.result.status = "in_progress"
    /\ Len(activities) = 2
    /\ \E k \in 1..Len(tasks) : tasks[k].status = "in_progress"


\* C13: every successful state-changing operation appends exactly one
\* activity in the same mutation; here the webhook-driven status change.
C13_OneActivityPerOperation ==
    (last.op = "updateStatusByExternalId" /\ last.result.success) =>
        /\ Len(activities) = Len(last.before.activities) + 1
        /\ SubSeq(activities, 1, Len(last.before.activities)) = last.before.activities

Sent == last.op = "send" /\ ~last.threw

\* the notifications the last send created
NewNotifications ==
    SubSeq(notifications, Len(last.before.notifications) + 1, Len(notifications))

NewFor(agentId) ==
    Cardinality({k \in 1..Len(NewNotifications) :
                    NewNotifications[k].mentionedAgentId = agentId})

AgentIds == {agents[k].id : k \in 1..Len(agents)}

\* C1: a messages.send call creates at most one notification for each agent;
\* when the sender is the owner, an assignee who is also mentioned or already
\* subscribed gets exactly one, the "awaiting your response" one.
C1_OneNotificationPerAgent ==
    Sent => \A a \in AgentIds : NewFor(a) <= 1

\* C2: no messages.send call creates a notification for the sender of the
\* message, whatever the content, the assignees and the subscriptions.
C2_SenderNeverNotified ==
    Sent => NewFor(last.args.agentId) = 0

\* the owner, an assignee of the task and already subscribed to it, posts
\* "@all", and the call creates notifications
C2_Witness ==
    /\ Sent
    /\ last.args.content = "@all"
    /\ isOwner(last.args.agentId, AgentById(agents, last.args.agentId))
    /\ \E k \in 1..Len(tasks[TaskIndex(tasks, last.args.taskId)].assigneeIds) :
          tasks[TaskIndex(tasks, last.args.taskId)].assigneeIds[k] = last.args.agentId
    /\ HasSub(last.before.subscriptions, last.args.agentId, last.args.taskId)
    /\ Len(NewNotifications) >= 2

\* C3: a message with the content "@all please review" creates exactly one
\* notification for every agent but the sender and leaves every agent but the
\* sender subscribed to the task.
C3_AllPleaseReview ==
    (Sent /\ last.args.content = "@all please review") =>
        \A a \in AgentIds \ {last.args.agentId} :
            /\ NewFor(a) = 1
            /\ HasSub(subscriptions, a, last.args.taskId)

\* C12: whatever the order of messages.send, subscribe and unsubscribe calls,
\* there is at most one subscription for each agent and task.
C12_OneSubscriptionPerPair ==
    \A i, j \in 1..Len(subscriptions) :
        (/\ subscriptions[i].agentId = subscriptions[j].agentId
         /\ subscriptions[i].taskId = subscriptions[j].taskId) => i = j

\* a send that mentions everybody on a task whose sender and another agent
\* were subscribed already
C12_Witness ==
    /\ Sent
    /\ last.args.content = "@all"
    /\ HasSub(last.before.subscriptions, last.args.agentId, last.args.taskId)
    /\ \E a \in AgentIds \ {last.args.agentId} :
          HasSub(last.before.subscriptions, a, last.args.taskId)
    /\ Len(subscriptions) > Len(last.before.subscriptions)

(***************************************************************************)
(* Claims about the external sync gateway                                  *)
(***************************************************************************)
DistinctKeys(payload, key) ==
    \A i, j \in 1..Len(payload) : payload[i][key] = payload[j][key] => i = j

CountByKey(table, key, id) == Cardinality({k \in 1..Len(table) : table[k][key] = id})

\* the last two commits on the objectives table were syncObjectives with the
\* same payload, and the first found none of its ids in the store
SyncedTwice ==
    /\ last.op = "syncObjectives"
    /\ last.prev.op = "syncObjectives"
    /\ last.prev.payload = last.payload
    /\ last.prev.fresh

SyncedTwiceOutcome ==
    LET n == Len(last.payload)
    IN  /\ last.prev.result.created = n
        /\ last.prev.result.updated = 0
        /\ last.result.created = 0
        /\ last.result.updated = n
        /\ objectives = last.before
        /\ \A k \in 1..n :
              CountByKey(objectives, "objectiveId", last.payload[k].objectiveId) = 1

\* C6 as stated: two syncObjectives calls with the same payload of n elements,
\* on a store with none of its ids, answer created = n, updated = 0 and then
\* created = 0, updated = n, the second leaves the table as the first left
\* it, and there is one record for each objectiveId of the payload.
C6_SyncTwice_AsStated == SyncedTwice => SyncedTwiceOutcome

\* C6: the same, for a payload whose objectiveIds are pairwise distinct.
C6_SyncTwice ==
    (SyncedTwice /\ DistinctKeys(last.payload, "objectiveId")) => SyncedTwiceOutcome

C6_Witness ==
    /\ SyncedTwice
    /\ DistinctKeys(last.payload, "objectiveId")
    /\ Len(last.payload) = 2
    /\ last.result.updated = 2

\* C7: whatever the interleaving of syncObjectives and syncProjects deliveries,
\* no two objective records share an objectiveId and no two project records
\* share a projectId.
C7_NoDuplicateExternalIds ==
    /\ \A k \in 1..Len(objectives) :
          CountByKey(objectives, "objectiveId", objectives[k].objectiveId) = 1
    /\ \A k \in 1..Len(projects) :
          CountByKey(projects, "projectId", projects[k].projectId) = 1

\* a delivery that started on a store without its ids is still in flight
\* after another delivery has committed a record under one of them
C7_Witness ==
    \E txn \in BagToSet(txns) :
        /\ txn.read = <<>>
        /\ ReadSet(TableOf(txn.kind), KeyOf(txn.kind), txn.payload) # <<>>
        /\ last.op = txn.kind
        /\ last.result.created > 0


(***************************************************************************)
(* Claims about the planner state                                          *)
(***************************************************************************)
\* the last call was a /planner/sync request the route answered itself
PlannerAnswered == last.op = "/planner/sync"

WithoutCostResetDate ==
    /\ PlannerAnswered
    /\ last.body.json = "object"
    /\ "costResetDate" \notin DOMAIN last.body.value

OtherRequiredPresent ==
    \A k \in 1..Len(required) :
        required[k] # "costResetDate" => required[k] \in DOMAIN last.body.value

RejectedNamingCostResetDate ==
    /\ last.response.status = 400
    /\ ~last.response.body.success
    /\ includes(last.response.body.error, "costResetDate")
    /\ ~last.ran

\* C11 as stated: a /planner/sync request whose body has no costResetDate is
\* answered 400 with an error message naming costResetDate, and
\* syncPlannerState is not run.
C11_MissingCostResetDate_AsStated == WithoutCostResetDate => RejectedNamingCostResetDate

\* C11: the same, for a body that carries the four other required fields.
C11_MissingCostResetDate ==
    (WithoutCostResetDate /\ OtherRequiredPresent) => RejectedNamingCostResetDate

C11_Witness ==
    /\ WithoutCostResetDate
    /\ OtherRequiredPresent
    /\ last.response.body.error = "Missing required field: costResetDate"
    /\ plannerState # <<>>
    /\ last.rows = 1


(***************************************************************************)
(* Claims about the webhook routes                                         *)
(***************************************************************************)
Routed == last.op \in {"/tasks/update", "/documents/upload"}

\* C14: every non-200 response of a webhook route has a JSON body of the
\* shape {success: false, error: <string>}.
C14_ErrorBodyShape ==
    (Routed /\ last.response.status # 200) =>
        /\ DOMAIN last.response.body = {"success", "error"}
        /\ last.response.body.success = FALSE
        /\ last.response.body.error \in STRING

(***************************************************************************)
(* Claims about starting a task from the board                             *)
(***************************************************************************)
PlayedTask == tasks[TaskIndex(tasks, play.taskId)]

StatusCommitted ==
    /\ TaskIndex(tasks, play.taskId) # 0
    /\ PlayedTask.status = "in_progress"
    /\ \E i \in 1..Len(activities) :
          /\ activities[i].type = "status_update"
          /\ activities[i].targetId = play.taskId

TriggerFailed == play.triggered /\ ~(play.res.kind = "ok" /\ play.res.json = "object")

\* C16: when handlePlay has attempted the fetch of /hooks/agent, the status
\* change to in_progress is already in the store; after a trigger call that
\* threw, was not OK or had no JSON body the status is still in_progress and
\* handlePlay was not rejected; linkRun is reached only with an OK response
\* that carries a runId
C16_StatusBeforeTrigger ==
    /\ play.pc # "idle" /\ play.triggered => StatusCommitted
    /\ play.pc # "idle" /\ TriggerFailed =>
          /\ StatusCommitted
          /\ ~play.rejected
          /\ ~play.linked
          /\ play.pc = "done"
    /\ play.pc # "idle" /\ (play.pc = "linking" \/ play.linked) =>
          /\ play.triggered
          /\ play.res.kind = "ok"
          /\ play.res.runId # ""

C16_Witness ==
    /\ play.pc = "done"
    /\ TriggerFailed
    /\ play.res.kind = "throws"
    /\ PlayedTask.status = "in_progress"

(***************************************************************************)
(* Claims about the resolution of mentions                                 *)
(***************************************************************************)
Normalized(s) == stripSpaceSlash(toLowerCase(s))

\* the agents whose name or role is the token, in lower case and without
\* spaces and slashes
MatchedBy(token) ==
    {k \in 1..Len(agents) :
        \/ Normalized(agents[k].name) = Normalized(token)
        \/ Normalized(agents[k].role) = Normalized(token)}

\* the notifications of the mention tier the last send created
MentionNotified ==
    {NewNotifications[k].mentionedAgentId : k \in
        {j \in 1..Len(NewNotifications) :
            NewNotifications[j].content =
                mentionContent(AgentById(agents, last.args.agentId),
                               tasks[TaskIndex(tasks, last.args.taskId)],
                               last.args.content)}}

NewSubscribers ==
    {subscriptions[k].agentId : k \in
        Len(last.before.subscriptions) + 1 .. Len(subscriptions)}

\* C17: a message whose only mention is a token that two or more agents, or
\* none, match by name or role (lower case, spaces and slashes stripped)
\* creates no mention notification and subscribes nobody but the sender; a
\* mention notification is created only when exactly one agent matches.
C17_AmbiguousMentionDropped ==
    (Sent /\ Len(matchMentions(last.args.content, 1)) = 1) =>
        LET token == mentionName(matchMentions(last.args.content, 1)[1])
        IN  Cardinality(MatchedBy(token)) # 1 =>
                /\ MentionNotified = {}
                /\ NewSubscribers \subseteq {last.args.agentId}

(***************************************************************************)
(* Claims about the subscriptions a message creates                        *)
(***************************************************************************)
\* the agents the mentions of a content resolve to: every agent for "all",
\* the agent found by name otherwise
ResolvedBy(content) ==
    LET mentions == matchMentions(content, 1)
    IN  UNION {IF toLowerCase(mentionName(mentions[k])) = "all" THEN AgentIds
               ELSE IF findMentioned(agents, mentionName(mentions[k])) = NoAgent THEN {}
               ELSE {findMentioned(agents, mentionName(mentions[k])).id} :
               k \in 1..Len(mentions)}

\* C18: after a successful messages.send the sender is subscribed to the
\* task, every agent a mention of the content resolved to, other than the
\* sender, is subscribed to the task, and the subscriptions that existed
\* before the call are all still there.
C18_SendSubscribes ==
    Sent =>
        /\ HasSub(subscriptions, last.args.agentId, last.args.taskId)
        /\ \A a \in ResolvedBy(last.args.content) \ {last.args.agentId} :
              HasSub(subscriptions, a, last.args.taskId)
        /\ Len(subscriptions) >= Len(last.before.subscriptions)
        /\ SubSeq(subscriptions, 1, Len(last.before.subscriptions))
              = last.before.subscriptions

\* a message that mentions Coder by name is sent by another agent to a task
\* that had a subscriber, and neither the sender nor Coder was subscribed
C18_Witness ==
    /\ Sent
    /\ last.args.content = "@Coder"
    /\ last.args.agentId # 5
    /\ last.before.subscriptions # <<>>
    /\ ~HasSub(last.before.subscriptions, 5, last.args.taskId)
    /\ ~HasSub(last.before.subscriptions, last.args.agentId, last.args.taskId)
    /\ HasSub(subscriptions, 5, last.args.taskId)

(***************************************************************************)
(* Claims about the single planner state                                   *)
(***************************************************************************)
SyncedPlanner == last.op = "syncPlannerState" /\ last.ran /\ ~last.threw

\* C19: whatever plannerState mutations run and however they interleave, the
\* plannerState table holds at most one row, and syncPlannerState answers
\* "created" exactly when the table was empty and "updated" otherwise.
C19_SinglePlannerRow ==
    /\ Len(plannerState) <= 1
    /\ SyncedPlanner =>
          /\ last.result.action \in {"created", "updated"}
          /\ last.result.action = "created" <=> last.rows = 0
          /\ last.result.action = "updated" <=> last.rows # 0

\* syncPlannerState found the row and patched it while another mutation was
\* in flight
C19_Witness ==
    /\ SyncedPlanner
    /\ last.result.action = "updated"
    /\ last.rows = 1
    /\ Len(plannerState) = 1
    /\ txns # EmptyBag

(***************************************************************************)
(* Claims about the order of the rules                                     *)
(***************************************************************************)
PositionIn(order, r) == CHOOSE k \in 1..Len(order) : order[k] = r

\* the rules that match the text keep their relative order
KeepsMatchingOrder(order, t) ==
    \A r1, r2 \in matchingRules[t] :
        r1 < r2 => PositionIn(order, r1) < PositionIn(order, r2)

\* a rule that does not match the text has passed a rule that does
MovesUnmatchedRule(order, t) ==
    \E r1 \in matchingRules[t], r2 \in 1..Len(order) \ matchingRules[t] :
        (r1 < r2) # (PositionIn(order, r1) < PositionIn(order, r2))

\* C20: for a fixed directory and text autoAssignAgent gives the same agent at
\* every call, and a rule table whose rules matching the text keep their
\* relative order, however the other rules are moved, gives that agent too.
C20_UnrelatedRulesDoNotMatter ==
    last.op = "autoAssignAgent" =>
        /\ last.order = <<1, 2, 3, 4, 5, 6, 7>> =>
              /\ last.result = autoAssignAgent(agents, last.text.title,
                                               last.text.description, last.text.tags)
              /\ last.result = AutoAssign(agents, last.text.title,
                                          last.text.description, last.text.tags)
        /\ KeepsMatchingOrder(last.order, last.text) =>
              last.result = AutoAssign(agents, last.text.title,
                                       last.text.description, last.text.tags)

\* a text that two rules match is assigned with a table in which rules that
\* do not match were moved across them, and an agent is returned
C20_Witness ==
    /\ last.op = "autoAssignAgent"
    /\ Cardinality(matchingRules[last.text]) >= 2
    /\ KeepsMatchingOrder(last.order, last.text)
    /\ MovesUnmatchedRule(last.order, last.text)
    /\ last.result # NULL

(***************************************************************************)
(* Claims about the owner rule and the subscriber tier                     *)
(***************************************************************************)
SentTask == tasks[TaskIndex(tasks, last.args.taskId)]

AssigneesOf(task) == {task.assigneeIds[k] : k \in 1..Len(task.assigneeIds)}

\* the agents the last send notified with the given content
NotifiedWith(content) ==
    {NewNotifications[k].mentionedAgentId : k \in
        {j \in 1..Len(NewNotifications) : NewNotifications[j].content = content}}

SenderIsOwner ==
    \/ last.args.agentId = SAMI_AGENT_ID
    \/ AgentById(agents, last.args.agentId).name = "Sami"

\* C21: when the sender of messages.send is the owner (named "Sami" or
\* carrying the owner id), every assignee of the task but the sender gets an
\* "awaiting your response" notification from the call, with or without a
\* mention in the content.
C21_OwnerNotifiesAssignees ==
    (Sent /\ SenderIsOwner) =>
        AssigneesOf(SentTask) \ {last.args.agentId}
            \subseteq NotifiedWith(ownerContent(SentTask))

\* the owner, an assignee, posts a content without a mention on a task with
\* another assignee
C21_Witness ==
    /\ Sent
    /\ SenderIsOwner
    /\ last.args.content = "hello"
    /\ last.args.agentId \in AssigneesOf(SentTask)
    /\ 5 \in NotifiedWith(ownerContent(SentTask))

SentSender == AgentById(agents, last.args.agentId)

\* every agent id the stores name
KnownIds ==
    AgentIds \cup {subscriptions[k].agentId : k \in 1..Len(subscriptions)}
             \cup AssigneesOf(SentTask)

\* C22: in messages.send every agent subscribed to the task, the
\* subscriptions the call created included, who is not the sender and was
\* notified neither by the owner rule nor by a mention gets a "posted
\* (subscribed)" notification from the call; an agent who is not subscribed,
\* not mentioned and not an assignee gets nothing.
C22_SubscriberTier ==
    Sent =>
        \A a \in KnownIds :
            /\ ( /\ HasSub(subscriptions, a, last.args.taskId)
                 /\ a # last.args.agentId
                 /\ a \notin NotifiedWith(ownerContent(SentTask))
                 /\ a \notin NotifiedWith(mentionContent(SentSender, SentTask,
                                                         last.args.content)) )
                  => a \in NotifiedWith(subscribedContent(SentSender, SentTask,
                                                          last.args.content))
            /\ ( /\ ~HasSub(subscriptions, a, last.args.taskId)
                 /\ a \notin ResolvedBy(last.args.content)
                 /\ a \notin AssigneesOf(SentTask) )
                  => NewFor(a) = 0

\* Theeb is subscribed to the task, Coder posts without a mention: Theeb gets
\* the subscribed notification and the owner, an assignee who is not
\* subscribed, gets nothing
C22_Witness ==
    /\ Sent
    /\ last.args.agentId = 5
    /\ last.args.content = "hello"
    /\ HasSub(last.before.subscriptions, 2, last.args.taskId)
    /\ 2 \in NotifiedWith(subscribedContent(SentSender, SentTask, last.args.content))
    /\ ~HasSub(subscriptions, 1, last.args.taskId)
    /\ NewFor(1) = 0

(***************************************************************************)
(* Claims about the lookup of a task by its external id                    *)
(***************************************************************************)
\* the positions of the tasks whose title contains the id
TitlesWith(ts, id) == {k \in 1..Len(ts) : includes(ts[k].title, id)}

\* C23: updateStatusByExternalId changes one task, the first in collection
\* order whose title contains the given id, and leaves every other task as it
\* was even when its title contains the id too; when no title contains the id
\* the result is success: false, the route answers 404, and no task and no
\* activity is written.
C23_FirstTitleMatchOnly ==
    /\ last.op = "updateStatusByExternalId" =>
          LET hits == TitlesWith(last.before.tasks, last.args.taskId)
          IN  /\ last.result.success <=> hits # {}
              /\ Len(tasks) = Len(last.before.tasks)
              /\ last.result.success =>
                    \E k \in hits :
                        /\ \A j \in hits : k <= j
                        /\ tasks[k].status = normalizedStatusOf(last.args.status)
                        /\ last.result.internalId = tasks[k].id
                        /\ \A j \in 1..Len(tasks) \ {k} : tasks[j] = last.before.tasks[j]
              /\ ~last.result.success =>
                    /\ tasks = last.before.tasks
                    /\ activities = last.before.activities
    /\ (last.op = "/tasks/update" /\ last.ran) =>
          /\ last.response.status = IF last.response.body.success THEN 200 ELSE 404
          /\ last.response.status = 404 <=> TitlesWith(tasks, last.body.value.taskId) = {}

\* the id is in both titles: the first task is moved and the second is as
\* it was
C23_Witness ==
    /\ last.op = "updateStatusByExternalId"
    /\ last.result.success
    /\ TitlesWith(last.before.tasks, last.args.taskId) = {1, 2}
    /\ tasks[1].status # last.before.tasks[1].status
    /\ tasks[2] = last.before.tasks[2]
    /\ tasks[1].title = "MC-12 Fix login bug"

(***************************************************************************)
(* Claims about the answer of a sync call                                  *)
(***************************************************************************)
Synced == last.op \in {"syncObjectives", "syncProjects"}

KeysOf(table, key) == {table[k][key] : k \in 1..Len(table)}

\* the last element of the payload with this id
LastOccurrence(payload, key, id) ==
    payload[CHOOSE k \in 1..Len(payload) :
                /\ payload[k][key] = id
                /\ \A j \in 1..Len(payload) : payload[j][key] = id => j <= k]

\* C24: a syncObjectives / syncProjects call answers created + updated equal
\* to the length of the payload and the external ids of the payload in payload
\* order; an id that is several times in the payload and was not in the store
\* counts as created once and as updated for every later occurrence, and one
\* record is left under it, with the fields of its last occurrence.
C24_SyncAnswer ==
    Synced =>
        LET key == KeyOf(last.op)
            table == TableOf(last.op)
            payload == last.payload
            new == KeysOf(payload, key) \ KeysOf(last.before, key)
        IN  /\ last.result.created + last.result.updated = Len(payload)
            /\ last.result.ids = [k \in 1..Len(payload) |-> payload[k][key]]
            /\ last.result.created = Cardinality(new)
            /\ \A id \in new :
                  /\ CountByKey(table, key, id) = 1
                  /\ \A k \in 1..Len(table) : table[k][key] = id =>
                        \A f \in DOMAIN payload[1] :
                            table[k][f] = LastOccurrence(payload, key, id)[f]

\* a payload with OBJ-002 twice on a store without it: created once, updated
\* once, and the record has the title of the second element
C24_Witness ==
    /\ last.op = "syncObjectives"
    /\ Len(last.payload) = 2
    /\ last.payload[1].objectiveId = last.payload[2].objectiveId
    /\ last.payload[1].title # last.payload[2].title
    /\ last.payload[1].objectiveId \notin KeysOf(last.before, "objectiveId")
    /\ last.result.created = 1
    /\ last.result.updated = 1
    /\ \E k \in 1..Len(objectives) : objectives[k].title = last.payload[2].title

(***************************************************************************)
(* Claims about the activity log, the messages and the references between  *)
(* the tables                                                              *)
(***************************************************************************)
IsPrefix(a, b) == Len(a) <= Len(b) /\ SubSeq(b, 1, Len(a)) = a

\* C25: the activity log and the message list are append-only: no step, those
\* of batchDeleteTasks, deleteAgent, unsubscribe and notifications.remove
\* included, modifies or deletes an activity or a message, so the log of a
\* state begins with the log of every earlier state.
C25_AppendOnly ==
    [][IsPrefix(activities, activities') /\ IsPrefix(messages, messages')]_vars

\* the agent who wrote a message was deleted, and the task of the message
\* too: the message and its activity are still there
C25_Witness ==
    /\ \E k \in 1..Len(messages) :
          /\ AgentById(agents, messages[k].fromAgentId) = NoAgent
          /\ TaskIndex(tasks, messages[k].taskId) = 0
    /\ \E k \in 1..Len(activities) :
          /\ activities[k].type = "message"
          /\ AgentById(agents, activities[k].agentId) = NoAgent
    /\ \E k \in 1..Len(activities) : activities[k].type = "bulk_delete"

\* C27: in every reachable state every agent id in the assignee list of a
\* task, in a subscription or as the recipient of a notification is the id of
\* an agent of the directory, after deleteAgent too, and the task of every
\* subscription exists, after batchDeleteTasks too.
C27_NoDanglingReferences ==
    /\ \A t \in 1..Len(tasks) : \A k \in 1..Len(tasks[t].assigneeIds) :
          tasks[t].assigneeIds[k] \in AgentIds
    /\ \A k \in 1..Len(subscriptions) :
          /\ subscriptions[k].agentId \in AgentIds
          /\ TaskIndex(tasks, subscriptions[k].taskId) # 0
    /\ \A k \in 1..Len(notifications) : notifications[k].mentionedAgentId \in AgentIds

(***************************************************************************)
(* Claims about rules whose agent is not in the directory                  *)
(***************************************************************************)
\* the rules that match the text and whose agent the directory holds
ResolvableRules(t) ==
    {r \in matchingRules[t] :
        findAgentByName(agents, AGENT_PATTERNS[r].agentName) # NoAgent}

\* C26: when a pattern of a rule matches the text and no agent has the name of
\* the rule as name or role, autoAssignAgent goes on with the other patterns
\* and the later rules: it returns the agent of the first matching rule that
\* has one, and the fallback Theeb only when no matching rule has an agent.
C26_SkipsRuleWithoutAgent ==
    last.op = "autoAssignAgent" =>
        IF ResolvableRules(last.text) # {}
        THEN \E r \in ResolvableRules(last.text) :
                /\ \A q \in ResolvableRules(last.text) : r <= q
                /\ last.result = findAgentByName(agents, AGENT_PATTERNS[r].agentName).id
        ELSE last.result = findAgentByName(agents, "Theeb").id

\* the text matches the UI/UX rule and the Coder rule, nobody in the
\* directory is the UI/UX Expert, and Coder is returned although Theeb is
\* there
C26_Witness ==
    /\ last.op = "autoAssignAgent"
    /\ {1, 7} \subseteq matchingRules[last.text]
    /\ findAgentByName(agents, "UI/UX Expert") = NoAgent
    /\ findAgentByName(agents, "Theeb") # NoAgent
    /\ last.result = findAgentByName(agents, "Coder").id
    /\ last.result # NULL

(***************************************************************************)
(* Claims about objectives and projects created by hand                    *)
(***************************************************************************)
\* C28: whatever sequence of syncObjectives, objectives.create,
\* objectives.update, syncProjects, projects.create and projects.update runs,
\* there is at most one objective record for an objectiveId and at most one
\* project record for a projectId.
C28_OneRecordPerExternalId ==
    /\ \A id \in KeysOf(objectives, "objectiveId") :
          CountByKey(objectives, "objectiveId", id) <= 1
    /\ \A id \in KeysOf(projects, "projectId") :
          CountByKey(projects, "projectId", id) <= 1

(***************************************************************************)
(* Claims about the explicit assignee of a new task                        *)
(***************************************************************************)
CreatedWithAssignee ==
    last.op \in {"createTaskWithAgent", "createTask"} /\ last.args.assignee # ""

CreatedTask == tasks[TaskIndex(tasks, IF last.op = "createTask" THEN last.result
                                      ELSE last.result.taskId)]

\* what the auto-assignment gives for the arguments of the last call
AutoFor(args) ==
    IF AutoAssign(agents, args.title, args.description, args.tags) # NULL
    THEN <<AutoAssign(agents, args.title, args.description, args.tags)>>
    ELSE <<>>

\* C29: with an explicit assignee name that no agent carries,
\* createTaskWithAgent stores what the auto-assignment gives and createTask
\* stores an empty assignee list; with a name that an agent carries both store
\* that agent alone, whatever the auto-assignment would give; a created task
\* never has more than one assignee.
C29_ExplicitAssigneePaths ==
    /\ CreatedWithAssignee =>
          LET explicit == findAgentByName(agents, last.args.assignee)
          IN  CreatedTask.assigneeIds =
                 IF explicit # NoAgent THEN <<explicit.id>>
                 ELSE IF last.op = "createTaskWithAgent" THEN AutoFor(last.args)
                 ELSE <<>>
    /\ \A k \in 1..Len(tasks) : Len(tasks[k].assigneeIds) <= 1

\* both paths were called with "Ghost" for the same text in a directory with
\* Theeb: the board's task has no assignee, the webhook's has one
C29_Witness ==
    /\ last.op = "createTaskWithAgent"
    /\ last.args.assignee = "Ghost"
    /\ findAgentByName(agents, "Theeb") # NoAgent
    /\ Len(tasks) = 2
    /\ tasks[1].title = tasks[2].title
    /\ tasks[1].assigneeIds = <<>>
    /\ tasks[2].assigneeIds = AutoFor(last.args)
    /\ tasks[2].assigneeIds # <<>>

(***************************************************************************)
(* Claims about /agents/status                                             *)
(***************************************************************************)
StatusRan == last.op = "/agents/status" /\ last.ran

\* the positions of the agents whose name or role is the given name
NamedAgents(dir, name) ==
    {k \in 1..Len(dir) : \/ toLowerCase(dir[k].name) = toLowerCase(name)
                         \/ toLowerCase(dir[k].role) = toLowerCase(name)}

\* C30: updateStatusByName clears the agent's current task exactly when the
\* status is idle and no currentTask is given; with a currentTask it sets the
\* reference to the first task whose title contains it, whatever the status,
\* and leaves it when no title does; without a currentTask and with the
\* status active or blocked the reference stays; a name that is no agent's
\* name or role is answered success: false with 404 and nothing is written.
C30_CurrentTaskReference ==
    StatusRan =>
        LET hits == NamedAgents(last.before.agents, last.args.agentName)
            titles == TitlesWith(tasks, last.args.currentTask)
        IN  /\ hits = {} =>
                  /\ last.response.status = 404
                  /\ last.response.body.success = FALSE
                  /\ agents = last.before.agents
                  /\ activities = last.before.activities
            /\ hits # {} =>
                  \E a \in hits :
                      /\ \A b \in hits : a <= b
                      /\ last.response.status = 200
                      /\ \A k \in 1..Len(agents) \ {a} : agents[k] = last.before.agents[k]
                      /\ agents[a].status = last.args.status
                      /\ agents[a].currentTaskId =
                            IF last.args.currentTask = ""
                            THEN (IF last.args.status = "idle" THEN NULL
                                  ELSE last.before.agents[a].currentTaskId)
                            ELSE IF titles = {}
                                 THEN last.before.agents[a].currentTaskId
                                 ELSE tasks[CHOOSE t \in titles :
                                                \A u \in titles : t <= u].id

\* Coder has a current task and goes idle with a currentTask that two titles
\* contain: the reference is set to the first of the two tasks, not cleared
C30_Witness ==
    /\ StatusRan
    /\ last.args.status = "idle"
    /\ TitlesWith(tasks, last.args.currentTask) = {1, 2}
    /\ last.before.agents[2].currentTaskId = tasks[2].id
    /\ agents[2].currentTaskId = tasks[1].id

=========================================================================
